---------------------------- MODULE Spec2Model ----------------------------
(***************************************************************************)
(* Paper Canvas: the node-state synchronization engine.                    *)
(*                                                                         *)
(* The model follows the refactored plugin (main.ts "v14", viewManager.ts, *)
(* the StateManager that pdfExporter.ts carries, and the bodies of         *)
(* loadCanvasData / saveCanvasData / validateState that unnamed/part_003   *)
(* holds).  One JavaScript task or callback is one action: JavaScript runs *)
(* a callback to completion, and the mutation records a task produces are  *)
(* delivered (microtask) before any timer or other task runs.              *)
(*                                                                         *)
(* Geometry is read as getNodeRectFromElement reads it from the element's  *)
(* translate() transform and its offset size; a detached element measures  *)
(* 1 x 1.  A write of a transform that leaves the value unchanged queues   *)
(* no mutation record (Chromium's inline-style behaviour).                 *)
(***************************************************************************)
EXTENDS Integers, Sequences, FiniteSets, TLC

\* ---------------------------------------------------------------- bounds
MaxPages == 2
MaxBatch == 2
MaxRelease == 2
MaxRaf == 1
\* pages a store can hold when StateManager is called directly
MaxStorePages == 3
MaxBurst == 3
MaxSaves == 2
SignificandBits == 12

\* ------------------------------------------------------ program constants
PAGE_GAP == 50
DefaultPageWidthPx == 794
DefaultPageHeightPx == 1123
CANVAS_DATA_VERSION == 1

\* --------------------------------------------------------- input domains
Nodes == {"n1", "n2"}
NoFile == "none"
\* the canvas file the user works on
HomeDoc == "a"
\* page sizes a user can enter in the settings tab (each > 50)
WidthChoices == {DefaultPageWidthPx, 600}
HeightChoices == {DefaultPageHeightPx}
\* the nodes whose element the host draws on the open surface
Drawable == {"n1"}
\* where a drag can leave a node (absolute canvas coordinates)
MovePoints == {<<100, 27>>, <<800, 1200>>}

Max(a, b) == IF a > b THEN a ELSE b
Min(a, b) == IF a < b THEN a ELSE b

\* ----------------------------------------------------------- StateManager
\* Map.set(key, value)
MapSet(m, k, v) == [i \in (DOMAIN m) \cup {k} |-> IF i = k THEN v ELSE m[i]]

pageOffsetY(pageIndex, pageH) == pageIndex * (pageH + PAGE_GAP)

\* variant: the right and bottom limits are the page's own edges
clampToBoundsIgnoresSize(x, y, width, height, dims) ==
    LET x1 == IF x < 0 THEN 0 ELSE x
        y1 == IF y < 0 THEN 0 ELSE y
        x2 == IF x1 > dims.width THEN dims.width ELSE x1
        y2 == IF y1 > dims.height THEN dims.height ELSE y1
    IN [x |-> x2, y |-> y2,
        changed |-> (x < 0) \/ (y < 0) \/ (x1 > dims.width) \/ (y1 > dims.height)]

\* variant: a position past the right or bottom limit is set to that limit,
\* also where the limit is negative
clampToBoundsToLimit(x, y, width, height, dims) ==
    LET maxX == dims.width - Max(1, width)
        maxY == dims.height - Max(1, height)
        x1 == IF x < 0 THEN 0 ELSE x
        y1 == IF y < 0 THEN 0 ELSE y
        x2 == IF x1 > maxX THEN maxX ELSE x1
        y2 == IF y1 > maxY THEN maxY ELSE y1
    IN [x |-> x2, y |-> y2,
        changed |-> (x < 0) \/ (y < 0) \/ (x1 > maxX) \/ (y1 > maxY)]

\* clampToBounds
clampToBounds(x, y, width, height, dims) ==
    LET effWidth == Max(1, width)
        effHeight == Max(1, height)
        minX == 0
        minY == 0
        maxX == dims.width - effWidth
        maxY == dims.height - effHeight
        x1 == IF x < minX THEN minX ELSE x
        y1 == IF y < minY THEN minY ELSE y
        x2 == IF x1 > maxX THEN Max(minX, maxX) ELSE x1
        y2 == IF y1 > maxY THEN Max(minY, maxY) ELSE y1
    IN [x |-> x2, y |-> y2,
        changed |-> (x < minX) \/ (y < minY) \/ (x1 > maxX) \/ (y1 > maxY)]

\* variant: the absolute position is stored as it is reported
assignStateToNewNodeAbsolute(ns, nodeId, rect, cur, dims) ==
    LET c == clampToBounds(rect.x, rect.y, rect.width, rect.height, dims)
    IN MapSet(ns, nodeId, [pageIndex |-> cur, x |-> c.x, y |-> c.y])

\* assignStateToNewNode: the node goes to the current page
assignStateToNewNode(ns, nodeId, rect, cur, dims) ==
    LET targetPageIndex == cur
        relativeX == rect.x
        relativeY == rect.y - pageOffsetY(targetPageIndex, dims.height)
        c == clampToBounds(relativeX, relativeY, rect.width, rect.height, dims)
    IN MapSet(ns, nodeId, [pageIndex |-> targetPageIndex, x |-> c.x, y |-> c.y])

\* variant: the page is derived again from where the rect lies
updateNodeStateRebinding(ns, nodeId, currentState, rect, dims) ==
    LET band == dims.height + PAGE_GAP
        targetPageIndex == Max(0, rect.y) \div band
        c == clampToBounds(rect.x, rect.y - targetPageIndex * band, rect.width,
                           rect.height, dims)
        next == [pageIndex |-> targetPageIndex, x |-> c.x, y |-> c.y]
    IN [ns |-> IF next # currentState THEN MapSet(ns, nodeId, next) ELSE ns,
        stateChanged |-> next # currentState,
        saveRequested |-> next # currentState,
        clampedResult |-> c]

\* variant: the clamp's changed flag is taken for the state having changed
updateNodeStateChangedByClamp(ns, nodeId, currentState, rect, dims) ==
    LET c == clampToBounds(rect.x,
                           rect.y - pageOffsetY(currentState.pageIndex, dims.height),
                           rect.width, rect.height, dims)
    IN [ns |-> IF c.changed
               THEN MapSet(ns, nodeId, [pageIndex |-> currentState.pageIndex,
                                        x |-> c.x, y |-> c.y])
               ELSE ns,
        stateChanged |-> c.changed,
        saveRequested |-> c.changed,
        clampedResult |-> c]

\* updateNodeStateFromStyleChange: the stored state moves by the delta between
\* the reported rect and the last known absolute position, then is clamped
updateNodeStateFromStyleChange(ns, nodeId, currentState, rect, dims) ==
    LET offY == pageOffsetY(currentState.pageIndex, dims.height)
        lastKnownAbsoluteX == currentState.x
        lastKnownAbsoluteY == currentState.y + offY
        deltaX == rect.x - lastKnownAbsoluteX
        deltaY == rect.y - lastKnownAbsoluteY
        newRelativeX == currentState.x + deltaX
        newRelativeY == currentState.y + deltaY
        c == clampToBounds(newRelativeX, newRelativeY, rect.width, rect.height, dims)
        differs == (c.x # currentState.x) \/ (c.y # currentState.y)
    IN [ns |-> IF differs
               THEN MapSet(ns, nodeId, [pageIndex |-> currentState.pageIndex,
                                        x |-> c.x, y |-> c.y])
               ELSE ns,
        stateChanged |-> differs,
        saveRequested |-> differs,
        clampedResult |-> c]

\* variant: the page is named by its 0-based index
NewPageZeroBased(i) == [index |-> i, name |-> i]

\* a page as resetLocalState / addNewPage build it; name n stands for "Page n"
NewPage(i) == [index |-> i, name |-> i + 1]

\* variant: page indices of node states are left as found
validateStateKeepsPageIndex(pg, ns, cur) ==
    LET pg1 == IF Len(pg) = 0 THEN <<NewPage(0)>> ELSE pg
        pg2 == [i \in 1..Len(pg1) |-> [pg1[i] EXCEPT !.index = i - 1]]
        maxPageIndex == Len(pg2) - 1
        cur1 == IF cur < 0 \/ cur > maxPageIndex THEN 0 ELSE cur
    IN [pages |-> pg2, nodeStates |-> ns, currentPageIndex |-> cur1]

\* variant: the current page is set back to the first page in any case
validateStateResetsCurrent(pg, ns, cur) ==
    LET pg1 == IF Len(pg) = 0 THEN <<NewPage(0)>> ELSE pg
        pg2 == [i \in 1..Len(pg1) |-> [pg1[i] EXCEPT !.index = i - 1]]
        maxPageIndex == Len(pg2) - 1
        ns1 == [n \in DOMAIN ns |->
                  IF ns[n].pageIndex < 0 \/ ns[n].pageIndex > maxPageIndex
                  THEN [ns[n] EXCEPT !.pageIndex = 0] ELSE ns[n]]
    IN [pages |-> pg2, nodeStates |-> ns1, currentPageIndex |-> 0]

\* variant: the pages keep the indices they came with
validateStateKeepsIndices(pg, ns, cur) ==
    LET pg1 == IF Len(pg) = 0 THEN <<NewPage(0)>> ELSE pg
        maxPageIndex == Len(pg1) - 1
        ns1 == [n \in DOMAIN ns |->
                  IF ns[n].pageIndex < 0 \/ ns[n].pageIndex > maxPageIndex
                  THEN [ns[n] EXCEPT !.pageIndex = 0] ELSE ns[n]]
        cur1 == IF cur < 0 \/ cur > maxPageIndex THEN 0 ELSE cur
    IN [pages |-> pg1, nodeStates |-> ns1, currentPageIndex |-> cur1]

\* validateState on (pages, nodeStates, currentPageIndex)
validateState(pg, ns, cur) ==
    LET pg1 == IF Len(pg) = 0 THEN <<NewPage(0)>> ELSE pg
        pg2 == [i \in 1..Len(pg1) |-> [pg1[i] EXCEPT !.index = i - 1]]
        maxPageIndex == Len(pg2) - 1
        ns1 == [n \in DOMAIN ns |->
                  IF ns[n].pageIndex < 0 \/ ns[n].pageIndex > maxPageIndex
                  THEN [ns[n] EXCEPT !.pageIndex = 0] ELSE ns[n]]
        cur1 == IF cur < 0 \/ cur > maxPageIndex THEN 0 ELSE cur
    IN [pages |-> pg2, nodeStates |-> ns1, currentPageIndex |-> cur1]

\* addNewPage: push the page, validateState (requestSave is the caller's
\* saveTimeout' = TRUE); the new page's index is the old length
addNewPage(pg, ns, cur) == validateState(Append(pg, NewPage(Len(pg))), ns, cur)

\* variant: an out-of-range request goes to the first page
setCurrentPageIndexResets(pg, cur, index) ==
    IF index >= 0 /\ index < Len(pg) THEN index ELSE 0

\* setCurrentPageIndex: an out-of-range request is clamped
setCurrentPageIndex(pg, cur, index) ==
    IF index >= 0 /\ index < Len(pg) THEN index
    ELSE IF Len(pg) > 0 THEN Max(0, Min(index, Len(pg) - 1)) ELSE 0

\* ------------------------------------------------------------------ state
VARIABLES
    pages,                  \* StateManager.pages
    nodeStates,             \* StateManager.nodeStates (a Map: id -> state)
    currentPageIndex,       \* StateManager.currentPageIndex
    saveTimeout,            \* a debounce timer of requestSave is pending
    settings,               \* plugin.settings
    currentCanvasFile,      \* plugin.currentCanvasFile (NoFile: none)
    storage,                \* the plugin's data file: document -> saved blob
    isUpdatingNodePosition, \* ViewManager's echo-suppression flag
    dom,                    \* the live surface: node -> element
    records,                \* mutation records queued for the observer
    releaseTimers,          \* pending setTimeout(flag = false, 0)
    insertTimers,           \* nodes with a pending 50 ms insertion handler
    rafQueue,               \* pending requestAnimationFrame re-applies
    log,                    \* what the last step did (history variable)
    out,                    \* what the last StateManager call returned
    strayTimers,            \* debounce timers still pending in the host that
                            \* saveTimeout no longer names
    pendingSwitch,          \* where a running updatePluginStateForLeaf or
                            \* onunload stands between its awaits
    orphanInserts,          \* pending 50 ms insertion handlers of elements
                            \* of a surface that is observed no more
    nodeEl,                 \* a canvas-node element's two identity channels:
                            \* its id attribute and data-paper-canvas-node-id
    pendingSaves,           \* saves that have read the data file and not
                            \* yet written it back
    overlapSwitch           \* a second run of the document switch, started
                            \* while the first awaits

vars == <<pages, nodeStates, currentPageIndex, saveTimeout, settings,
          currentCanvasFile, storage, isUpdatingNodePosition, dom, records,
          releaseTimers, insertTimers, rafQueue, log, out, strayTimers,
                   pendingSwitch, orphanInserts, nodeEl, pendingSaves, overlapSwitch>>

\* getPageDimensions
getPageDimensions == [width |-> settings.pageWidthPx, height |-> settings.pageHeightPx]

NodeOrder == <<"n1", "n2">>

\* measurable: reading the element's position gives numbers (it does not
\* when the fallbacks of getNodeRectFromElement all fail, e.g. the call of
\* getBoundingClientRect throws)
FreshElement == [attached |-> FALSE, x |-> 100, y |-> 27, width |-> 150,
                 height |-> 80, hidden |-> FALSE, measurable |-> TRUE]

\* the null getNodeRectFromElement returns when it finds no coordinates
NoRect == [null |-> TRUE]

\* getNodeRectFromElement: translate() of the element and its offset size
getNodeRectFromElement(el) ==
    IF ~el.measurable THEN NoRect
    ELSE [x |-> el.x, y |-> el.y,
          width |-> IF el.attached THEN Max(1, el.width) ELSE 1,
          height |-> IF el.attached THEN Max(1, el.height) ELSE 1]

\* a log entry: what was done, to which node, whether the flag was set at
\* that moment, and the position in the batch of the record that caused it
\* (0: no record)
Ev(e, n, g, at) == [ev |-> e, node |-> n, guarded |-> g, at |-> at]
Rec(t, n, o) == [type |-> t, node |-> n, origin |-> o]

\* The engine's view of the world while one callback runs: E carries the
\* node states, the surface, the records its own writes queue, the flag,
\* the timers it arms and the log.
Ctx == [ns |-> nodeStates, dom |-> dom, recs |-> <<>>,
        flag |-> isUpdatingNodePosition, rel |-> releaseTimers,
        save |-> saveTimeout, ins |-> insertTimers, log |-> <<>>,
        dims |-> getPageDimensions]

\* updateNodeTransform: nodeEl.style.transform = translate(x, y)
updateNodeTransform(E, n, x, y) ==
    LET moved == (E.dom[n].x # x) \/ (E.dom[n].y # y)
    IN [E EXCEPT !.dom[n].x = x, !.dom[n].y = y,
                 !.recs = IF moved /\ E.dom[n].attached
                          THEN Append(@, Rec("style", n, "engine")) ELSE @,
                 !.log = Append(@, Ev("write", n, E.flag, 0))]

\* applyVisibilityToNode
applyVisibilityToNode(E, n, nodePageIndex, currentViewPageIndex) ==
    [E EXCEPT !.dom[n].hidden = (nodePageIndex # currentViewPageIndex)]

\* applyStateToSingleNode
applyStateToSingleNode(E, n, state, currentViewPageIndex) ==
    LET absoluteY == state.y + pageOffsetY(state.pageIndex, E.dims.height)
    IN applyVisibilityToNode(updateNodeTransform(E, n, state.x, absoluteY),
                             n, state.pageIndex, currentViewPageIndex)

\* applyNodeVisibilityAndPosition: first every state whose element is found,
\* then every element of the surface
RECURSIVE applyStates(_, _, _, _)
applyStates(E, i, cur, ns) ==
    IF i > Len(NodeOrder) THEN E
    ELSE LET n == NodeOrder[i]
         IN applyStates(IF n \in DOMAIN ns /\ E.dom[n].attached
                        THEN applyStateToSingleNode(E, n, ns[n], cur) ELSE E,
                        i + 1, cur, ns)

\* variant: the second pass leaves elements without a state as they are
hideStraysKnownOnly(E, cur, ns) ==
    [E EXCEPT !.dom = [n \in Nodes |->
        IF ~E.dom[n].attached \/ n \notin DOMAIN ns THEN E.dom[n]
        ELSE [E.dom[n] EXCEPT !.hidden = (ns[n].pageIndex # cur)]]]

\* the second pass of applyNodeVisibilityAndPosition, over every element that
\* carries an id
hideStrays(E, cur, ns) ==
    [E EXCEPT !.dom = [n \in Nodes |->
        IF ~E.dom[n].attached THEN E.dom[n]
        ELSE IF n \notin DOMAIN ns \/ ns[n].pageIndex # cur
             THEN [E.dom[n] EXCEPT !.hidden = TRUE]
             ELSE [E.dom[n] EXCEPT !.hidden = FALSE]]]

applyNodeVisibilityAndPosition(E, cur, ns) ==
    hideStrays(applyStates(E, 1, cur, ns), cur, ns)

\* ---------------------------------------------------------- ChangeBridge
\* variant: the clamp rewrite is done without raising the flag
handleStyleRecordUnflagged(E, n, at) ==
    LET E0 == [E EXCEPT !.log = Append(@, Ev("style", n, E.flag, at))]
    IN IF n \notin DOMAIN E.ns THEN E0
       ELSE LET currentState == E.ns[n]
                r == updateNodeStateFromStyleChange(E.ns, n, currentState,
                        getNodeRectFromElement(E.dom[n]), E.dims)
                E1 == [E0 EXCEPT !.ns = r.ns, !.save = @ \/ r.saveRequested]
            IN IF r.clampedResult.changed
               THEN updateNodeTransform(E1, n, r.clampedResult.x,
                        r.clampedResult.y
                          + pageOffsetY(currentState.pageIndex, E.dims.height))
               ELSE E1

\* variant: a style change of a node without a state places the node
handleStyleRecordPlacing(E, n, at) ==
    LET E0 == [E EXCEPT !.log = Append(@, Ev("style", n, E.flag, at))]
        rect == getNodeRectFromElement(E.dom[n])
    IN IF n \notin DOMAIN E.ns
       THEN [E0 EXCEPT !.ns = assignStateToNewNode(E.ns, n, rect, currentPageIndex,
                                                   E.dims),
                       !.save = TRUE]
       ELSE LET currentState == E.ns[n]
                r == updateNodeStateFromStyleChange(E.ns, n, currentState, rect,
                                                    E.dims)
                E1 == [E0 EXCEPT !.ns = r.ns, !.save = @ \/ r.saveRequested]
            IN IF r.clampedResult.changed
               THEN LET E2 == updateNodeTransform([E1 EXCEPT !.flag = TRUE], n,
                                 r.clampedResult.x,
                                 r.clampedResult.y
                                   + pageOffsetY(currentState.pageIndex, E.dims.height))
                    IN [E2 EXCEPT !.rel = Min(@ + 1, MaxRelease)]
               ELSE E1

\* variant: the style change of a hidden node is passed over
handleStyleRecordSkipsHidden(E, n, at) ==
    LET E0 == [E EXCEPT !.log = Append(@, Ev("style", n, E.flag, at))]
    IN IF n \notin DOMAIN E.ns \/ E.dom[n].hidden THEN E0
       ELSE LET currentState == E.ns[n]
                r == updateNodeStateFromStyleChange(E.ns, n, currentState,
                        getNodeRectFromElement(E.dom[n]), E.dims)
                E1 == [E0 EXCEPT !.ns = r.ns, !.save = @ \/ r.saveRequested]
            IN IF r.clampedResult.changed
               THEN LET E2 == updateNodeTransform([E1 EXCEPT !.flag = TRUE], n,
                                 r.clampedResult.x,
                                 r.clampedResult.y
                                   + pageOffsetY(currentState.pageIndex, E.dims.height))
                    IN [E2 EXCEPT !.rel = Min(@ + 1, MaxRelease)]
               ELSE E1

\* variant: an element that cannot be measured is taken to be at the origin
handleStyleRecordMeasuresOrigin(E, n, at) ==
    LET E0 == [E EXCEPT !.log = Append(@, Ev("style", n, E.flag, at))]
    IN IF n \notin DOMAIN E.ns THEN E0
       ELSE LET currentState == E.ns[n]
                rect == IF getNodeRectFromElement(E.dom[n]) = NoRect
                        THEN [x |-> 0, y |-> 0, width |-> 1, height |-> 1]
                        ELSE getNodeRectFromElement(E.dom[n])
                r == updateNodeStateFromStyleChange(E.ns, n, currentState, rect,
                                                    E.dims)
                E1 == [E0 EXCEPT !.ns = r.ns, !.save = @ \/ r.saveRequested]
            IN IF r.clampedResult.changed
               THEN LET absoluteY == r.clampedResult.y
                              + pageOffsetY(currentState.pageIndex, E.dims.height)
                        E2 == updateNodeTransform([E1 EXCEPT !.flag = TRUE], n,
                                                  r.clampedResult.x, absoluteY)
                    IN [E2 EXCEPT !.rel = Min(@ + 1, MaxRelease)]
               ELSE E1

\* mutant of handleStyleRecord: the correction is written without the flag,
\* and the write is reported to the observer even when it changes nothing
handleStyleRecordRewritesUnguarded(E, n, at) ==
    LET E0 == [E EXCEPT !.log = Append(@, Ev("style", n, E.flag, at))]
    IN IF n \notin DOMAIN E.ns THEN E0
       ELSE IF getNodeRectFromElement(E.dom[n]) = NoRect
       THEN [E0 EXCEPT !.log = Append(@, Ev("no rect", n, E.flag, at))]
       ELSE LET currentState == E.ns[n]
                rect == getNodeRectFromElement(E.dom[n])
                r == updateNodeStateFromStyleChange(E.ns, n, currentState, rect,
                                                    E.dims)
                E1 == [E0 EXCEPT !.ns = r.ns, !.save = @ \/ r.saveRequested]
            IN IF r.clampedResult.changed
               THEN LET absoluteY == r.clampedResult.y
                              + pageOffsetY(currentState.pageIndex, E.dims.height)
                    IN [E1 EXCEPT !.dom[n].x = r.clampedResult.x,
                                  !.dom[n].y = absoluteY,
                                  !.recs = Append(@, Rec("style", n, "engine")),
                                  !.log = Append(@, Ev("write", n, E.flag, 0))]
               ELSE E1

\* the style branch of the observer callback, for one record
handleStyleRecord(E, n, at) ==
    LET E0 == [E EXCEPT !.log = Append(@, Ev("style", n, E.flag, at))]
    IN IF n \notin DOMAIN E.ns THEN E0
       ELSE IF getNodeRectFromElement(E.dom[n]) = NoRect
       THEN [E0 EXCEPT !.log = Append(@, Ev("no rect", n, E.flag, at))]
       ELSE LET currentState == E.ns[n]
                rect == getNodeRectFromElement(E.dom[n])
                r == updateNodeStateFromStyleChange(E.ns, n, currentState, rect,
                                                    E.dims)
                E1 == [E0 EXCEPT !.ns = r.ns, !.save = @ \/ r.saveRequested]
            IN IF r.clampedResult.changed
               THEN LET absoluteY == r.clampedResult.y
                              + pageOffsetY(currentState.pageIndex, E.dims.height)
                        E2 == updateNodeTransform([E1 EXCEPT !.flag = TRUE], n,
                                                  r.clampedResult.x, absoluteY)
                    IN [E2 EXCEPT !.rel = Min(@ + 1, MaxRelease)]
               ELSE E1

\* the childList branch, for one added node: the handler is deferred by 50 ms
handleAddedRecord(E, n, at) ==
    [E EXCEPT !.ins = @ \cup {n}, !.log = Append(@, Ev("added", n, E.flag, at))]

RECURSIVE stylePass(_, _, _)
stylePass(E, recs, i) ==
    IF i > Len(recs) THEN E
    ELSE stylePass(IF recs[i].type = "style"
                   THEN handleStyleRecord(E, recs[i].node, i) ELSE E, recs, i + 1)

\* variant: the removal of a node's element also forgets the node's state
RECURSIVE childListPassForgetting(_, _, _)
childListPassForgetting(E, recs, i) ==
    IF i > Len(recs) THEN E
    ELSE childListPassForgetting(
            IF recs[i].type = "added" THEN handleAddedRecord(E, recs[i].node, i)
            ELSE IF recs[i].type = "removed"
                 THEN [E EXCEPT !.ns = [m \in (DOMAIN E.ns) \ {recs[i].node} |->
                                           E.ns[m]]]
                 ELSE E,
            recs, i + 1)

RECURSIVE childListPass(_, _, _)
childListPass(E, recs, i) ==
    IF i > Len(recs) THEN E
    ELSE childListPass(IF recs[i].type = "added"
                       THEN handleAddedRecord(E, recs[i].node, i) ELSE E, recs, i + 1)

\* variant: one pass over the batch, each record handled where it stands
RECURSIVE processBatchInOrder(_, _)
processBatchInOrder(E, recs) ==
    IF recs = <<>> THEN E
    ELSE LET i == Len(recs)
             E1 == processBatchInOrder(E, SubSeq(recs, 1, i - 1))
         IN IF recs[i].type = "style" THEN handleStyleRecord(E1, recs[i].node, i)
            ELSE IF recs[i].type = "added" THEN handleAddedRecord(E1, recs[i].node, i)
            ELSE E1

\* the two forEach passes of the callback over one batch
processBatch(E, recs) == childListPass(stylePass(E, recs, 1), recs, 1)

\* what a callback leaves behind
Commit(E) ==
    /\ nodeStates' = E.ns
    /\ dom' = E.dom
    /\ records' = E.recs
    /\ isUpdatingNodePosition' = E.flag
    /\ releaseTimers' = E.rel
    /\ saveTimeout' = E.save
    /\ insertTimers' = E.ins
    /\ log' = E.log

\* variant: the callback does not look at the flag
ObserverCallbackUnguarded ==
    /\ records # <<>>
    /\ Commit(processBatch(Ctx, records))
    /\ UNCHANGED <<pages, currentPageIndex, settings, currentCanvasFile, storage,
                   rafQueue, out, strayTimers,
                   pendingSwitch, orphanInserts, nodeEl, pendingSaves, overlapSwitch>>

\* the log's name for a record the callback dropped
Ignored(type) ==
    IF type = "style" THEN "ignored style"
    ELSE IF type = "added" THEN "ignored added" ELSE "ignored removed"

\* MutationObserver callback: one batch of records
ObserverCallback ==
    /\ records # <<>>
    /\ IF isUpdatingNodePosition
       THEN /\ records' = <<>>
            /\ log' = [i \in 1..Len(records) |->
                          Ev(Ignored(records[i].type), records[i].node, TRUE, i)]
            /\ UNCHANGED <<nodeStates, dom, isUpdatingNodePosition, releaseTimers,
                           saveTimeout, insertTimers>>
       ELSE Commit(processBatch(Ctx, records))
    /\ UNCHANGED <<pages, currentPageIndex, settings, currentCanvasFile, storage,
                   rafQueue, out, strayTimers,
                   pendingSwitch, orphanInserts, nodeEl, pendingSaves, overlapSwitch>>

\* variant: the release timer runs and leaves the flag as it is
ReleaseFlagLeavesFlag ==
    /\ records = <<>>
    /\ releaseTimers > 0
    /\ releaseTimers' = releaseTimers - 1
    /\ log' = <<>>
    /\ UNCHANGED <<pages, nodeStates, currentPageIndex, saveTimeout, settings,
                   currentCanvasFile, storage, isUpdatingNodePosition, dom,
                   records, insertTimers, rafQueue, out, strayTimers,
                   pendingSwitch, orphanInserts, nodeEl, pendingSaves, overlapSwitch>>

\* setTimeout(() => isUpdatingNodePosition = false, 0)
ReleaseFlag ==
    /\ records = <<>>
    /\ releaseTimers > 0
    /\ releaseTimers' = releaseTimers - 1
    /\ isUpdatingNodePosition' = FALSE
    /\ log' = <<>>
    /\ UNCHANGED <<pages, nodeStates, currentPageIndex, saveTimeout, settings,
                   currentCanvasFile, storage, dom, records, insertTimers, rafQueue,
                   out, strayTimers,
                   pendingSwitch, orphanInserts, nodeEl, pendingSaves, overlapSwitch>>

\* variant: the handler places the node again whether or not it has a state
InsertionTimerReassigns(n) ==
    /\ records = <<>>
    /\ n \in insertTimers
    /\ Len(rafQueue) < MaxRaf
    /\ insertTimers' = insertTimers \ {n}
    /\ IF ~dom[n].attached
       THEN /\ log' = <<>>
            /\ UNCHANGED <<nodeStates, saveTimeout, rafQueue>>
       ELSE LET ns1 == assignStateToNewNode(nodeStates, n,
                           getNodeRectFromElement(dom[n]), currentPageIndex,
                           getPageDimensions)
            IN /\ nodeStates' = ns1
               /\ saveTimeout' = TRUE
               /\ rafQueue' = Append(rafQueue, [node |-> n, state |-> ns1[n]])
               /\ log' = <<>>
    /\ UNCHANGED <<pages, currentPageIndex, settings, currentCanvasFile, storage,
                   isUpdatingNodePosition, dom, records, releaseTimers, out, strayTimers,
                   pendingSwitch, orphanInserts, nodeEl, pendingSaves, overlapSwitch>>

\* the 50 ms handler of an added node
InsertionTimer(n) ==
    /\ records = <<>>
    /\ n \in insertTimers
    /\ Len(rafQueue) < MaxRaf
    /\ insertTimers' = insertTimers \ {n}
    /\ IF ~dom[n].attached
       THEN /\ log' = <<>>
            /\ UNCHANGED <<nodeStates, saveTimeout, rafQueue>>
       ELSE IF getNodeRectFromElement(dom[n]) = NoRect
       THEN /\ log' = <<Ev("no rect", n, isUpdatingNodePosition, 0)>>
            /\ UNCHANGED <<nodeStates, saveTimeout, rafQueue>>
       ELSE LET rect == getNodeRectFromElement(dom[n])
                isNew == n \notin DOMAIN nodeStates
                ns1 == IF isNew
                       THEN assignStateToNewNode(nodeStates, n, rect,
                                                 currentPageIndex, getPageDimensions)
                       ELSE nodeStates
            IN /\ nodeStates' = ns1
               /\ saveTimeout' = (saveTimeout \/ isNew)
               /\ rafQueue' = Append(rafQueue, [node |-> n, state |-> ns1[n]])
               /\ log' = <<>>
    /\ UNCHANGED <<pages, currentPageIndex, settings, currentCanvasFile, storage,
                   isUpdatingNodePosition, dom, records, releaseTimers, out, strayTimers,
                   pendingSwitch, orphanInserts, nodeEl, pendingSaves, overlapSwitch>>

\* the requestAnimationFrame callback: re-apply the captured state
AnimationFrame ==
    /\ records = <<>>
    /\ rafQueue # <<>>
    /\ rafQueue' = Tail(rafQueue)
    /\ LET n == Head(rafQueue).node
           E == IF dom[n].attached
                THEN applyStateToSingleNode(Ctx, n, Head(rafQueue).state,
                                            currentPageIndex)
                ELSE Ctx
       IN /\ dom' = E.dom
          /\ records' = E.recs
          /\ log' = <<Ev("frame", n, isUpdatingNodePosition, 0)>> \o E.log
    /\ UNCHANGED <<pages, nodeStates, currentPageIndex, saveTimeout, settings,
                   currentCanvasFile, storage, isUpdatingNodePosition,
                   releaseTimers, insertTimers, out, strayTimers,
                   pendingSwitch, orphanInserts, nodeEl, pendingSaves, overlapSwitch>>

\* ---------------------------------------------------------- navigation
\* projection done by a command or lifecycle handler, and what it leaves
Project(cur, ns) ==
    LET E == applyNodeVisibilityAndPosition(Ctx, cur, ns)
    IN /\ dom' = E.dom
       /\ records' = E.recs
       /\ log' = E.log

\* the notices goToPage(targetPageIndex) shows to the user: showNotice is
\* called on a completed switch only; an invalid target, the page already
\* shown and a missing canvas end in a console message or in nothing
goToPageNotices(target) ==
    IF target < 0 \/ target >= Len(pages) THEN <<>>
    ELSE IF target = currentPageIndex THEN <<>>
    ELSE IF currentCanvasFile = NoFile THEN <<>>
    ELSE <<[notice |-> "Switched to", page |-> pages[target + 1].name]>>

\* goToPage(targetPageIndex); the buttons and commands ask for the page
\* before or after the current one
goToPage(target) ==
    /\ records = <<>>
    /\ IF target < 0 \/ target >= Len(pages) \/ target = currentPageIndex
          \/ currentCanvasFile = NoFile
       THEN /\ log' = <<>>
            /\ UNCHANGED <<currentPageIndex, dom, records>>
       ELSE /\ currentPageIndex' = setCurrentPageIndex(pages, currentPageIndex, target)
            /\ Project(currentPageIndex', nodeStates)
    /\ UNCHANGED <<pages, nodeStates, saveTimeout, settings, currentCanvasFile,
                   storage, isUpdatingNodePosition, releaseTimers, insertTimers,
                   rafQueue, out, strayTimers,
                   pendingSwitch, orphanInserts, nodeEl, pendingSaves, overlapSwitch>>

GoToPage == \E target \in {currentPageIndex - 1, currentPageIndex + 1} : goToPage(target)

\* addNewPage: StateManager.addNewPage, then goToPage(newIndex)
AddNewPage ==
    /\ records = <<>>
    /\ Len(pages) < MaxPages
    /\ LET newPageIndex == Len(pages)
           v == addNewPage(pages, nodeStates, currentPageIndex)
       IN /\ pages' = v.pages
          /\ nodeStates' = v.nodeStates
          /\ saveTimeout' = TRUE
          /\ IF currentCanvasFile = NoFile
             THEN /\ currentPageIndex' = v.currentPageIndex
                  /\ log' = <<>>
                  /\ UNCHANGED <<dom, records>>
             ELSE /\ currentPageIndex' = setCurrentPageIndex(v.pages,
                                              v.currentPageIndex, newPageIndex)
                  /\ Project(currentPageIndex', v.nodeStates)
    /\ UNCHANGED <<settings, currentCanvasFile, storage, isUpdatingNodePosition,
                   releaseTimers, insertTimers, rafQueue, out, strayTimers,
                   pendingSwitch, orphanInserts, nodeEl, pendingSaves, overlapSwitch>>

\* the settings tab: a new page width or height, then saveSettings
SaveSettings ==
    /\ records = <<>>
    /\ \E w \in WidthChoices, h \in HeightChoices :
          /\ (w # settings.pageWidthPx) # (h # settings.pageHeightPx)
          /\ settings' = [pageWidthPx |-> w, pageHeightPx |-> h]
    /\ IF currentCanvasFile = NoFile
       THEN /\ log' = <<>>
            /\ UNCHANGED <<dom, records>>
       ELSE LET E == applyNodeVisibilityAndPosition(
                        [Ctx EXCEPT !.dims = [width |-> settings'.pageWidthPx,
                                              height |-> settings'.pageHeightPx]],
                        currentPageIndex, nodeStates)
            IN /\ dom' = E.dom /\ records' = E.recs /\ log' = E.log
    /\ UNCHANGED <<pages, nodeStates, currentPageIndex, saveTimeout,
                   currentCanvasFile, storage, isUpdatingNodePosition,
                   releaseTimers, insertTimers, rafQueue, out, strayTimers,
                   pendingSwitch, orphanInserts, nodeEl, pendingSaves, overlapSwitch>>

\* ------------------------------------------------------------ persistence
EmptyMap == [n \in {} |-> 0]

\* the shape of a saved blob: pages and nodeStates are both arrays, or one of
\* them is something else
Arrays == "arrays"
Shapes == {Arrays, "pages not an array", "nodeStates not an array"}

\* resetLocalState
FreshModel == [pages |-> <<NewPage(0)>>, nodeStates |-> EmptyMap,
               currentPageIndex |-> 0]

\* variant: the blob is written without the node states
saveCanvasDataPagesOnly(file) ==
    LET v == validateState(pages, nodeStates, currentPageIndex)
    IN [model |-> v,
        storage |-> [d \in (DOMAIN storage) \cup {file} |->
                        IF d = file
                        THEN [version |-> CANVAS_DATA_VERSION, shape |-> Arrays,
                              pages |-> v.pages, nodeStates |-> EmptyMap]
                        ELSE storage[d]]]

\* saveCanvasData(file): validateState, then the blob goes under the file's key
saveCanvasData(file) ==
    LET v == validateState(pages, nodeStates, currentPageIndex)
    IN [model |-> v,
        storage |-> [d \in (DOMAIN storage) \cup {file} |->
                        IF d = file
                        THEN [version |-> CANVAS_DATA_VERSION, shape |-> Arrays,
                              pages |-> v.pages, nodeStates |-> v.nodeStates]
                        ELSE storage[d]]]

\* variant: a blob of another version is read like one of this version
loadCanvasDataAnyVersion(st, file) ==
    IF file \notin DOMAIN st THEN FreshModel
    ELSE IF st[file].shape # Arrays THEN FreshModel
    ELSE validateState(IF Len(st[file].pages) > 0 THEN st[file].pages
                       ELSE <<NewPage(0)>>,
                       st[file].nodeStates, 0)

\* what loadCanvasData(file) returns: true when a blob of this version and
\* of the right shape was found
loadCanvasDataReturns(st, file) ==
    /\ file \in DOMAIN st
    /\ st[file].version = CANVAS_DATA_VERSION
    /\ st[file].shape = Arrays

\* mutant of loadCanvasData: the stored page list is taken as it is
loadCanvasDataKeepsPages(st, file) ==
    IF file \notin DOMAIN st THEN FreshModel
    ELSE IF st[file].version # CANVAS_DATA_VERSION THEN FreshModel
    ELSE IF st[file].shape # Arrays THEN FreshModel
    ELSE [pages |-> st[file].pages, nodeStates |-> st[file].nodeStates,
          currentPageIndex |-> 0]

\* loadCanvasData(file) on a data file st: the model that results
loadCanvasData(st, file) ==
    IF file \notin DOMAIN st THEN FreshModel
    ELSE IF st[file].version # CANVAS_DATA_VERSION THEN FreshModel
    ELSE IF st[file].shape # Arrays THEN FreshModel
    ELSE validateState(IF Len(st[file].pages) > 0 THEN st[file].pages
                       ELSE <<NewPage(0)>>,
                       st[file].nodeStates, 0)

\* variant: the pending timer is left running when a new one is started
requestSaveWithoutClear(timeout, stray) ==
    [saveTimeout |-> TRUE,
     strayTimers |-> stray + (IF timeout THEN 1 ELSE 0)]

\* requestSave: clearTimeout on the timer saveTimeout names, then a new
\* timer, which saveTimeout names from now on
requestSave(timeout, stray) ==
    [saveTimeout |-> TRUE, strayTimers |-> stray]

\* the callback of the debounce timer: saveCanvasData(getCurrentFile()), which
\* writes nothing when no file is open
SaveTimerCallback ==
    /\ records = <<>>
    /\ saveTimeout
    /\ saveTimeout' = FALSE
    /\ IF currentCanvasFile = NoFile
       THEN UNCHANGED <<pages, nodeStates, currentPageIndex, storage>>
       ELSE LET r == saveCanvasData(currentCanvasFile)
            IN /\ pages' = r.model.pages
               /\ nodeStates' = r.model.nodeStates
               /\ currentPageIndex' = r.model.currentPageIndex
               /\ storage' = r.storage
    /\ log' = <<>>
    /\ UNCHANGED <<settings, currentCanvasFile, isUpdatingNodePosition, dom,
                   records, releaseTimers, insertTimers, rafQueue, strayTimers,
                   pendingSwitch, orphanInserts, nodeEl, pendingSaves, overlapSwitch>>

\* the debounce timer of requestSave fires
SaveTimerFires ==
    /\ SaveTimerCallback
    /\ UNCHANGED out

\* updatePluginStateForLeaf for a canvas leaf showing another file: flush the
\* open document, load the new one, initializeCanvasView on its surface (the
\* host has drawn any subset of its nodes already)
OpenDocument(d) ==
    /\ records = <<>>
    /\ d # currentCanvasFile
    /\ LET st == IF currentCanvasFile = NoFile THEN storage
                 ELSE saveCanvasData(currentCanvasFile).storage
           m == loadCanvasData(st, d)
       IN /\ storage' = st
          /\ pages' = m.pages
          /\ nodeStates' = m.nodeStates
          /\ currentPageIndex' = m.currentPageIndex
          /\ \E drawn \in SUBSET Drawable :
               LET surface == [n \in Nodes |->
                                 [FreshElement EXCEPT !.attached = (n \in drawn)]]
                   E == applyNodeVisibilityAndPosition(
                           [Ctx EXCEPT !.dom = surface], m.currentPageIndex,
                           m.nodeStates)
               IN /\ dom' = E.dom /\ records' = E.recs /\ log' = E.log
    /\ currentCanvasFile' = d
    /\ saveTimeout' = IF currentCanvasFile = NoFile THEN saveTimeout ELSE FALSE
    /\ UNCHANGED <<settings, isUpdatingNodePosition, releaseTimers, insertTimers,
                   rafQueue, out, strayTimers,
                   pendingSwitch, orphanInserts, nodeEl, pendingSaves, overlapSwitch>>

\* the user opens the canvas file (no canvas was open before)
OpenHomeDocument ==
    /\ currentCanvasFile = NoFile
    /\ OpenDocument(HomeDoc)

\* initializeCanvasView run again for the open canvas (a layout change that
\* finds the observer to be attached again): cleanup, setupCanvasObserver, then
\* the projection of the stored states; pending timers and the flag are not
\* touched
InitializeCanvasView ==
    /\ records = <<>>
    /\ currentCanvasFile # NoFile
    /\ Project(currentPageIndex, nodeStates)
    /\ UNCHANGED <<pages, nodeStates, currentPageIndex, saveTimeout, settings,
                   currentCanvasFile, storage, isUpdatingNodePosition,
                   releaseTimers, insertTimers, rafQueue, out, strayTimers,
                   pendingSwitch, orphanInserts, nodeEl, pendingSaves, overlapSwitch>>

\* ------------------------------------------------------- the live surface
\* The host (the user, through the canvas) changes the surface within one of
\* its own tasks; the records of that task reach the observer as one batch.
HostMayAct ==
    /\ currentCanvasFile # NoFile
    /\ Len(records) < MaxBatch
    /\ \A i \in 1..Len(records) : records[i].origin = "host"

HostFrame == <<pages, nodeStates, currentPageIndex, saveTimeout, settings,
               currentCanvasFile, storage, isUpdatingNodePosition, releaseTimers,
               insertTimers, rafQueue, out, strayTimers,
                   pendingSwitch, orphanInserts, nodeEl, pendingSaves, overlapSwitch>>

\* a drag: the host rewrites the node's translate()
HostMoves(n) ==
    /\ HostMayAct
    /\ dom[n].attached
    /\ \E p \in MovePoints :
          /\ p # <<dom[n].x, dom[n].y>>
          /\ dom' = [dom EXCEPT ![n].x = p[1], ![n].y = p[2]]
    /\ records' = Append(records, Rec("style", n, "host"))
    /\ log' = <<>>
    /\ UNCHANGED HostFrame

\* the host creates (or re-creates) the node's element
HostInserts(n) ==
    /\ HostMayAct
    /\ ~dom[n].attached
    /\ dom' = [dom EXCEPT ![n].attached = TRUE, ![n].hidden = FALSE]
    /\ records' = Append(records, Rec("added", n, "host"))
    /\ log' = <<>>
    /\ UNCHANGED HostFrame

\* the host destroys the node's element
HostRemoves(n) ==
    /\ HostMayAct
    /\ dom[n].attached
    /\ dom' = [dom EXCEPT ![n].attached = FALSE]
    /\ records' = Append(records, Rec("removed", n, "host"))
    /\ log' = <<>>
    /\ UNCHANGED HostFrame

\* ---------------------------------------------------------- specification
\* nothing has been called yet
NoCall == [op |-> "none"]
NoSwitch == [pc |-> "idle"]
BareElement == [id |-> "", data |-> ""]

Init ==
    /\ pages = FreshModel.pages
    /\ nodeStates = FreshModel.nodeStates
    /\ currentPageIndex = FreshModel.currentPageIndex
    /\ saveTimeout = FALSE
    /\ settings = [pageWidthPx |-> DefaultPageWidthPx, pageHeightPx |-> DefaultPageHeightPx]
    /\ currentCanvasFile = NoFile
    /\ storage = [d \in {} |-> FreshModel]
    /\ isUpdatingNodePosition = FALSE
    /\ dom = [n \in Nodes |-> FreshElement]
    /\ records = <<>>
    /\ releaseTimers = 0
    /\ insertTimers = {}
    /\ rafQueue = <<>>
    /\ log = <<>>
    /\ out = NoCall
    /\ strayTimers = 0
    /\ pendingSwitch = NoSwitch
    /\ orphanInserts = {}
    /\ nodeEl = BareElement
    /\ pendingSaves = {}
    /\ overlapSwitch = NoSwitch

Next ==
    \/ ObserverCallback
    \/ ReleaseFlag
    \/ \E n \in Nodes : InsertionTimer(n)
    \/ AnimationFrame
    \/ GoToPage
    \/ AddNewPage
    \/ SaveTimerFires
    \/ OpenHomeDocument
    \/ \E n \in Drawable : HostMoves(n)
    \/ \E n \in Drawable : HostInserts(n)
    \/ \E n \in Drawable : HostRemoves(n)

Spec == Init /\ [][Next]_vars

\* the same, with a user who also changes the page size in the settings tab
NextSettings ==
    \/ Next
    \/ SaveSettings

SpecSettings == Init /\ [][NextSettings]_vars

\* the engine on its surface, with layout changes that initialize the view
\* again; the debounce timer of requestSave, which touches the data file
\* only, stays pending
NextLifecycle ==
    \/ ObserverCallback
    \/ ReleaseFlag
    \/ \E n \in Nodes : InsertionTimer(n)
    \/ AnimationFrame
    \/ GoToPage
    \/ AddNewPage
    \/ OpenHomeDocument
    \/ InitializeCanvasView
    \/ \E n \in Drawable : HostMoves(n)
    \/ \E n \in Drawable : HostInserts(n)
    \/ \E n \in Drawable : HostRemoves(n)

SpecLifecycle == Init /\ [][NextLifecycle]_vars

\* ------------------------------------------------- StateManager, directly
\* The StateManager's methods called in any order with any arguments: no
\* canvas is open, so the plugin, the observer and the surface stay idle.
RectXs == {-20, 100, 800}
RectYs == {-20, 27, 1200}
RectWidths == {150, 900}
RectHeights == {80}
Rects == [x : RectXs, y : RectYs, width : RectWidths, height : RectHeights]

\* what a data file can hold under a canvas key: any version, a page list of
\* any length with stale indices, node states on any page index
BlobPages == {[i \in 1..k |-> NewPage(0)] : k \in 0..MaxPages}
BlobState(i) == [pageIndex |-> i, x |-> 100, y |-> 27]
BlobNodeStates ==
    {EmptyMap}
    \cup {[n \in {"n1"} |-> BlobState(i)] : i \in -1..MaxPages}
    \cup {[n \in Nodes |-> IF n = "n1" THEN BlobState(0) ELSE BlobState(i)] :
              i \in -1..MaxPages}
Blobs == [version : {CANVAS_DATA_VERSION}, shape : {Arrays}, pages : BlobPages,
          nodeStates : BlobNodeStates]
         \cup [version : {0}, shape : {Arrays},
               pages : {<<NewPage(0), NewPage(0)>>},
               nodeStates : {[n \in Nodes |-> BlobState(1)]}]
         \cup [version : {CANVAS_DATA_VERSION}, shape : Shapes \ {Arrays},
               pages : {<<NewPage(0), NewPage(0)>>},
               nodeStates : {[n \in Nodes |-> BlobState(1)]}]

Idle == <<settings, currentCanvasFile, storage, isUpdatingNodePosition, dom,
          records, releaseTimers, insertTimers, rafQueue, log, strayTimers,
                   pendingSwitch, orphanInserts, nodeEl, pendingSaves, overlapSwitch>>

CallAssignStateToNewNode(n) ==
    /\ currentCanvasFile = NoFile
    /\ n \notin DOMAIN nodeStates
    /\ \E rect \in Rects :
          /\ nodeStates' = assignStateToNewNode(nodeStates, n, rect,
                                                currentPageIndex, getPageDimensions)
          /\ out' = [op |-> "assign", node |-> n, rect |-> rect]
    /\ saveTimeout' = TRUE
    /\ UNCHANGED <<pages, currentPageIndex>>
    /\ UNCHANGED Idle

CallUpdateNodeState(n) ==
    /\ currentCanvasFile = NoFile
    /\ n \in DOMAIN nodeStates
    /\ \E rect \in Rects :
          LET r == updateNodeStateFromStyleChange(nodeStates, n, nodeStates[n],
                                                  rect, getPageDimensions)
          IN /\ nodeStates' = r.ns
             /\ saveTimeout' = (saveTimeout \/ r.saveRequested)
             /\ out' = [op |-> "update", node |-> n, rect |-> rect,
                        stateChanged |-> r.stateChanged,
                        clampedResult |-> r.clampedResult]
    /\ UNCHANGED <<pages, currentPageIndex>>
    /\ UNCHANGED Idle

CallSetCurrentPageIndex ==
    /\ currentCanvasFile = NoFile
    /\ \E index \in -1..MaxPages :
          /\ currentPageIndex' = setCurrentPageIndex(pages, currentPageIndex, index)
          /\ out' = [op |-> "setCurrentPageIndex", index |-> index]
    /\ UNCHANGED <<pages, nodeStates, saveTimeout, strayTimers,
                   pendingSwitch, orphanInserts, nodeEl, pendingSaves, overlapSwitch>>
    /\ UNCHANGED Idle

CallValidateState ==
    /\ currentCanvasFile = NoFile
    /\ LET v == validateState(pages, nodeStates, currentPageIndex)
       IN /\ pages' = v.pages
          /\ nodeStates' = v.nodeStates
          /\ currentPageIndex' = v.currentPageIndex
    /\ out' = [op |-> "validateState"]
    /\ UNCHANGED saveTimeout
    /\ UNCHANGED Idle

\* loadCanvasData of a file whose key holds blob in the data file
CallLoadCanvasData ==
    /\ currentCanvasFile = NoFile
    /\ \E blob \in Blobs :
          LET st == [d \in {HomeDoc} |-> blob]
              m == loadCanvasData(st, HomeDoc)
          IN /\ pages' = m.pages
             /\ nodeStates' = m.nodeStates
             /\ currentPageIndex' = m.currentPageIndex
             /\ out' = [op |-> "loadCanvasData", blob |-> blob,
                        returned |-> loadCanvasDataReturns(st, HomeDoc)]
    /\ UNCHANGED saveTimeout
    /\ UNCHANGED Idle

\* addNewPage on a store that holds fewer than max pages
CallAddNewPageUpTo(max) ==
    /\ currentCanvasFile = NoFile
    /\ Len(pages) < max
    /\ LET v == addNewPage(pages, nodeStates, currentPageIndex)
       IN /\ pages' = v.pages
          /\ nodeStates' = v.nodeStates
          /\ currentPageIndex' = v.currentPageIndex
    /\ saveTimeout' = TRUE
    /\ out' = [op |-> "addNewPage", newPageIndex |-> Len(pages)]
    /\ UNCHANGED Idle

CallAddNewPage == CallAddNewPageUpTo(MaxPages)

NextStore ==
    \/ \E n \in Nodes : CallAssignStateToNewNode(n)
    \/ \E n \in Nodes : CallUpdateNodeState(n)
    \/ CallSetCurrentPageIndex
    \/ CallValidateState
    \/ CallLoadCanvasData
    \/ CallAddNewPage

SpecStore == Init /\ [][NextStore]_vars

\* ------------------------------------------- the page list, directly
\* The methods that build and repair the page list, on a store that can grow
\* to MaxStorePages pages.
CallAddNewPageOfStore == CallAddNewPageUpTo(MaxStorePages)

\* what the fields of a store can hold when validateState is entered (within
\* loadCanvasData they hold what the data file gave): a page list of any
\* length, numbered rightly or with stale indices, node states on any page
\* index, any current page
RawPages ==
    {[i \in 1..k |-> NewPage(0)] : k \in 0..MaxStorePages}
    \cup {[i \in 1..k |-> NewPage(i - 1)] : k \in 0..MaxStorePages}
RawStores == [pages : RawPages, nodeStates : BlobNodeStates,
              currentPageIndex : -1..MaxStorePages]

\* validateState entered with the fields holding raw
CallValidateStateOn ==
    /\ currentCanvasFile = NoFile
    /\ \E raw \in RawStores :
          LET v == validateState(raw.pages, raw.nodeStates, raw.currentPageIndex)
          IN /\ pages' = v.pages
             /\ nodeStates' = v.nodeStates
             /\ currentPageIndex' = v.currentPageIndex
             /\ out' = [op |-> "validateStateOn", raw |-> raw]
    /\ UNCHANGED saveTimeout
    /\ UNCHANGED Idle

\* loadCanvasData of the file, from the data file as it stands (which may
\* have no entry for the file)
CallLoadStored ==
    /\ currentCanvasFile = NoFile
    /\ LET m == loadCanvasData(storage, HomeDoc)
       IN /\ pages' = m.pages
          /\ nodeStates' = m.nodeStates
          /\ currentPageIndex' = m.currentPageIndex
          /\ out' = [op |-> "loadStored",
                     returned |-> loadCanvasDataReturns(storage, HomeDoc)]
    /\ UNCHANGED saveTimeout
    /\ UNCHANGED Idle

NextPages ==
    \/ CallAddNewPageOfStore
    \/ CallSetCurrentPageIndex
    \/ CallValidateState
    \/ CallLoadCanvasData
    \/ CallValidateStateOn
    \/ CallLoadStored

SpecPages == Init /\ [][NextPages]_vars

\* --------------------------------------------- save and load, directly
\* saveCanvasData, resetLocalState and loadCanvasData called on a store whose
\* model the page-list methods and loads of blobs have built.
IdleButStorage == <<settings, currentCanvasFile, isUpdatingNodePosition, dom,
                    records, releaseTimers, insertTimers, rafQueue, log,
                    strayTimers,
                   pendingSwitch, orphanInserts, nodeEl, pendingSaves, overlapSwitch>>

CallSaveCanvasData ==
    /\ currentCanvasFile = NoFile
    /\ LET r == saveCanvasData(HomeDoc)
       IN /\ pages' = r.model.pages
          /\ nodeStates' = r.model.nodeStates
          /\ currentPageIndex' = r.model.currentPageIndex
          /\ storage' = r.storage
    /\ out' = [op |-> "saveCanvasData"]
    /\ UNCHANGED saveTimeout
    /\ UNCHANGED IdleButStorage

CallResetLocalState ==
    /\ currentCanvasFile = NoFile
    /\ pages' = FreshModel.pages
    /\ nodeStates' = FreshModel.nodeStates
    /\ currentPageIndex' = FreshModel.currentPageIndex
    /\ out' = [op |-> "resetLocalState"]
    /\ UNCHANGED saveTimeout
    /\ UNCHANGED Idle

NextPersist ==
    \/ CallAddNewPageOfStore
    \/ CallSetCurrentPageIndex
    \/ CallLoadCanvasData
    \/ CallSaveCanvasData
    \/ CallResetLocalState
    \/ CallLoadStored

SpecPersist == Init /\ [][NextPersist]_vars

\* clampToBounds called with any position and size, under either page width
ClampXs == {-20, 0, 100, 644, 645, 800}
ClampYs == {-20, 0, 27, 1043, 1044, 1200}
ClampWidths == {1, 150, 600, 794, 900}
ClampHeights == {1, 80, 1123, 1200}

CallClampToBounds ==
    /\ currentCanvasFile = NoFile
    /\ \E x \in ClampXs, y \in ClampYs, width \in ClampWidths,
          height \in ClampHeights :
          out' = [op |-> "clampToBounds", x |-> x, y |-> y, width |-> width,
                  height |-> height, dims |-> getPageDimensions,
                  result |-> clampToBounds(x, y, width, height, getPageDimensions)]
    /\ UNCHANGED <<pages, nodeStates, currentPageIndex, saveTimeout, strayTimers,
                   pendingSwitch, orphanInserts, nodeEl, pendingSaves, overlapSwitch>>
    /\ UNCHANGED Idle

NextClamp ==
    \/ CallClampToBounds
    \/ SaveSettings

SpecClamp == Init /\ [][NextClamp]_vars

\* ------------------------------------------------ the debounce, directly
\* requestSave called up to MaxBurst times in a row, between the page
\* commands of the engine, which call it themselves; out counts the calls
\* made since the timer was last idle.
CallRequestSave ==
    /\ records = <<>>
    /\ LET calls == IF saveTimeout /\ out.op = "requestSave" THEN out.calls ELSE 0
           r == requestSave(saveTimeout, strayTimers)
       IN /\ calls < MaxBurst
          /\ saveTimeout' = r.saveTimeout
          /\ strayTimers' = r.strayTimers
          /\ out' = [op |-> "requestSave", calls |-> calls + 1]
    /\ UNCHANGED <<pages, nodeStates, currentPageIndex, settings,
                   currentCanvasFile, storage, isUpdatingNodePosition, dom,
                   records, releaseTimers, insertTimers, rafQueue, log,
                   pendingSwitch, orphanInserts, nodeEl, pendingSaves, overlapSwitch>>

\* the debounce timer fires; out keeps the length of the burst it ends and
\* whether saveCanvasData had a file to write to
DebounceTimerFires ==
    /\ SaveTimerCallback
    /\ out' = [op |-> "saveTimer",
               calls |-> IF out.op = "requestSave" THEN out.calls ELSE 0,
               wrote |-> currentCanvasFile # NoFile]

NextDebounce ==
    \/ OpenHomeDocument
    \/ AddNewPage
    \/ GoToPage
    \/ CallRequestSave
    \/ DebounceTimerFires

SpecDebounce == Init /\ [][NextDebounce]_vars

\* the host's event loop: a timer whose delay has passed runs once the loop
\* is between tasks (no host draws on this surface, so no records are queued)
SpecDebounceFair ==
    /\ SpecDebounce
    /\ WF_vars(DebounceTimerFires)

\* ------------------------------------------- leaving the open document
\* updatePluginStateForLeaf and onunload are async: each await hands the loop
\* to whatever task is due, so the handler is one action per stretch between
\* two awaits. OtherDoc is an empty canvas shown in a second leaf; the host
\* draws on the home canvas only.
OtherDoc == "b"

HostInsertsOnHome(n) ==
    /\ currentCanvasFile = HomeDoc
    /\ HostInserts(n)

\* the active leaf shows another canvas (d = OtherDoc) or no canvas, or the
\* plugin is unloaded (d = NoFile): the debounce timer is cleared and
\* saveCanvasData runs up to its first await; the blob is built by then, its
\* nodeStates an array made from the entries of that moment, its pages the
\* live array
SwitchBegin(d) ==
    /\ records = <<>>
    /\ pendingSwitch = NoSwitch
    /\ currentCanvasFile # NoFile
    /\ d # currentCanvasFile
    /\ saveTimeout' = FALSE
    /\ LET v == validateState(pages, nodeStates, currentPageIndex)
       IN /\ pages' = v.pages
          /\ nodeStates' = v.nodeStates
          /\ currentPageIndex' = v.currentPageIndex
          /\ pendingSwitch' = [pc |-> "saving", target |-> d,
                               entries |-> v.nodeStates]
    /\ log' = <<>>
    /\ UNCHANGED <<settings, currentCanvasFile, storage, isUpdatingNodePosition,
                   dom, records, releaseTimers, insertTimers, rafQueue, out,
                   strayTimers, orphanInserts, nodeEl, pendingSaves, overlapSwitch>>

\* loadData and saveData have answered: the blob is in the data file. The
\* handler goes on: for a canvas, currentCanvasFile is the new file and
\* loadCanvasData runs up to its await; otherwise cleanup, and no file is open
SwitchWrite ==
    /\ records = <<>>
    /\ pendingSwitch.pc = "saving"
    /\ storage' = [d \in (DOMAIN storage) \cup {currentCanvasFile} |->
                     IF d = currentCanvasFile
                     THEN [version |-> CANVAS_DATA_VERSION, shape |-> Arrays,
                           pages |-> pages,
                           nodeStates |-> pendingSwitch.entries]
                     ELSE storage[d]]
    /\ currentCanvasFile' = pendingSwitch.target
    /\ pendingSwitch' = IF pendingSwitch.target = NoFile THEN NoSwitch
                        ELSE [pc |-> "loading", target |-> pendingSwitch.target,
                              from |-> currentCanvasFile]
    /\ log' = <<>>
    /\ UNCHANGED <<pages, nodeStates, currentPageIndex, saveTimeout, settings,
                   isUpdatingNodePosition, dom, records, releaseTimers,
                   insertTimers, rafQueue, out, strayTimers, orphanInserts, nodeEl, pendingSaves, overlapSwitch>>

\* loadData has answered: the model is the new document's, and
\* initializeCanvasView disconnects the observer from the old surface and
\* observes the new one. The 50 ms handlers the old observer has started are
\* not cancelled: they stay pending, each with its element
SwitchLoad ==
    /\ records = <<>>
    /\ pendingSwitch.pc = "loading"
    /\ LET m == loadCanvasData(storage, currentCanvasFile)
           surface == [n \in Nodes |-> FreshElement]
           E == applyNodeVisibilityAndPosition([Ctx EXCEPT !.dom = surface],
                                               m.currentPageIndex, m.nodeStates)
       IN /\ pages' = m.pages
          /\ nodeStates' = m.nodeStates
          /\ currentPageIndex' = m.currentPageIndex
          /\ dom' = E.dom
          /\ records' = E.recs
          /\ log' = E.log
    /\ orphanInserts' = orphanInserts \cup
                          {[node |-> n, el |-> dom[n]] : n \in insertTimers}
    /\ insertTimers' = {}
    /\ pendingSwitch' = NoSwitch
    /\ UNCHANGED <<saveTimeout, settings, currentCanvasFile, storage,
                   isUpdatingNodePosition, releaseTimers, rafQueue, out,
                   strayTimers, nodeEl, pendingSaves, overlapSwitch>>

\* the 50 ms handler of a node added to a surface that is observed no more.
\* Its element is still in the document when the old canvas is shown in
\* another leaf, and gone when the leaf itself was given the new file; the
\* handler calls the StateManager of the plugin, whatever document it holds.
\* (The frame callback it asks for writes to the old element only.)
OrphanInsertionTimer(o) ==
    /\ records = <<>>
    /\ o \in orphanInserts
    /\ orphanInserts' = orphanInserts \ {o}
    /\ \E contained \in BOOLEAN :
          IF ~contained
          THEN /\ log' = <<Ev("orphan insertion", o.node, FALSE, 0)>>
               /\ UNCHANGED <<nodeStates, saveTimeout>>
          ELSE IF ~o.el.measurable
          THEN /\ log' = <<Ev("orphan insertion", o.node, TRUE, 0)>>
               /\ UNCHANGED <<nodeStates, saveTimeout>>
          ELSE LET rect == getNodeRectFromElement(
                               [o.el EXCEPT !.attached = TRUE])
                   isNew == o.node \notin DOMAIN nodeStates
               IN /\ nodeStates' =
                       IF isNew
                       THEN assignStateToNewNode(nodeStates, o.node, rect,
                                currentPageIndex, getPageDimensions)
                       ELSE nodeStates
                  /\ saveTimeout' = (saveTimeout \/ isNew)
                  /\ log' = <<Ev("orphan insertion", o.node, TRUE, 0)>>
    /\ UNCHANGED <<pages, currentPageIndex, settings, currentCanvasFile, storage,
                   isUpdatingNodePosition, dom, records, releaseTimers,
                   insertTimers, rafQueue, out, strayTimers, pendingSwitch,
                   nodeEl, pendingSaves, overlapSwitch>>

NextSwitch ==
    \/ OpenHomeDocument
    \/ \E n \in Drawable : HostInsertsOnHome(n)
    \/ ObserverCallback
    \/ \E n \in Nodes : InsertionTimer(n)
    \/ AnimationFrame
    \/ \E d \in {OtherDoc, NoFile} : SwitchBegin(d)
    \/ SwitchWrite
    \/ SwitchLoad
    \/ \E o \in orphanInserts : OrphanInsertionTimer(o)

SpecSwitch == Init /\ [][NextSwitch]_vars

\* the same, with the debounce timer of requestSave
NextSwitchSave ==
    \/ NextSwitch
    \/ SaveTimerFires

SpecSwitchSave == Init /\ [][NextSwitchSave]_vars

\* ------------------------------------------------ node identity, directly
\* What a channel can hold: nothing, an id the host gave (with or without
\* the node- prefix), a string that is neither prefixed nor made of letters,
\* digits, - and _ only, or an id ensureNodeId made before.
GeneratedIds == {"node-lx3k-a1b2c", "node-lx3m-d4e5f"}
ChannelValues == {"", "node-7", "card_1", "my card"} \cup GeneratedIds

\* nodeId.startsWith("node-") || /^[a-zA-Z0-9-_]+$/.test(nodeId)
hasIdFormat(nodeId) == nodeId \in ({"node-7", "card_1"} \cup GeneratedIds)

\* ensureNodeId(nodeEl): the id attribute is read first, the data attribute
\* only when the id attribute is empty; an id of the expected format is
\* written to each channel that is empty and returned, anything else is
\* replaced on both channels by a new id (generated: Date.now and
\* Math.random give it)
ensureNodeId(el, generated) ==
    LET nodeId == IF el.id # "" THEN el.id ELSE el.data
    IN IF nodeId # "" /\ hasIdFormat(nodeId)
       THEN [el |-> [id |-> IF el.id = "" THEN nodeId ELSE el.id,
                     data |-> IF el.data = "" THEN nodeId ELSE el.data],
             returned |-> nodeId]
       ELSE [el |-> [id |-> generated, data |-> generated],
             returned |-> generated]

IdentityFrame == <<pages, nodeStates, currentPageIndex, saveTimeout, settings,
                   currentCanvasFile, storage, isUpdatingNodePosition, dom,
                   records, releaseTimers, insertTimers, rafQueue, log,
                   strayTimers, pendingSwitch, orphanInserts, pendingSaves, overlapSwitch>>

\* the host renders a node with any content in the two channels
HostRendersElement ==
    /\ \E i \in ChannelValues, d \in ChannelValues :
          /\ [id |-> i, data |-> d] # nodeEl
          /\ nodeEl' = [id |-> i, data |-> d]
    /\ out' = NoCall
    /\ UNCHANGED IdentityFrame

\* ensureNodeId called on the element; out keeps the channels before the
\* call, the id returned, and the id the first call on this element returned
CallEnsureNodeId ==
    /\ \E generated \in GeneratedIds :
          LET r == ensureNodeId(nodeEl, generated)
          IN /\ nodeEl' = r.el
             /\ out' = [op |-> "ensureNodeId", before |-> nodeEl,
                        returned |-> r.returned,
                        first |-> IF out.op = "none" THEN r.returned
                                  ELSE out.first,
                        calls |-> IF out.op = "none" THEN 1 ELSE 2,
                        stripped |-> IF out.op = "strip" THEN out.stripped
                                     ELSE "none"]
    /\ UNCHANGED IdentityFrame

\* between two calls one of the two channels loses its content (the host
\* renders the element again, or a script removes the attribute)
StripChannel(channel) ==
    /\ out.op = "ensureNodeId"
    /\ nodeEl[channel] # ""
    /\ nodeEl' = [nodeEl EXCEPT ![channel] = ""]
    /\ out' = [op |-> "strip", first |-> out.first, stripped |-> channel]
    /\ UNCHANGED IdentityFrame

NextIdentity ==
    \/ HostRendersElement
    \/ CallEnsureNodeId
    \/ \E channel \in {"id", "data"} : StripChannel(channel)

SpecIdentity == Init /\ [][NextIdentity]_vars

\* ------------------------------------- a surface that cannot be measured
\* The engine on a surface where reading a node's position can fail: the
\* host puts an element into, or takes it out of, a condition in which
\* getNodeRectFromElement finds no coordinates. No record comes of that.
HostTogglesMeasurable(n) ==
    /\ HostMayAct
    /\ dom[n].attached
    /\ dom' = [dom EXCEPT ![n].measurable = ~@]
    /\ log' = <<>>
    /\ UNCHANGED records
    /\ UNCHANGED HostFrame

NextMeasure ==
    \/ OpenHomeDocument
    \/ \E n \in Drawable : HostMoves(n)
    \/ \E n \in Drawable : HostInserts(n)
    \/ \E n \in Drawable : HostTogglesMeasurable(n)
    \/ ObserverCallback
    \/ ReleaseFlag
    \/ \E n \in Nodes : InsertionTimer(n)
    \/ AnimationFrame

SpecMeasure == Init /\ [][NextMeasure]_vars

\* ------------------------------------------- the flag and its release
\* The engine on a surface the host inserts, moves and removes nodes on,
\* without the page commands and the save timer.
NextRelease ==
    \/ OpenHomeDocument
    \/ \E n \in Drawable : HostMoves(n)
    \/ \E n \in Drawable : HostInserts(n)
    \/ \E n \in Drawable : HostRemoves(n)
    \/ ObserverCallback
    \/ ReleaseFlag
    \/ \E n \in Nodes : InsertionTimer(n)
    \/ AnimationFrame

SpecRelease == Init /\ [][NextRelease]_vars

\* the host's event loop: the records of a task are delivered when the task
\* ends, and a timer of 0 ms runs in one of the next tasks, however many
\* tasks of the host come before it
\* (weak fairness of ObserverCallback written out: the callback changes the
\* state exactly when records are queued and handling them does not put
\* everything back as it was)
ObserverCannotAct ==
    \/ records = <<>>
    \/ /\ ~isUpdatingNodePosition
       /\ LET E == processBatch(Ctx, records)
          IN /\ E.ns = nodeStates /\ E.dom = dom /\ E.recs = records
             /\ E.flag = isUpdatingNodePosition /\ E.rel = releaseTimers
             /\ E.save = saveTimeout /\ E.ins = insertTimers /\ E.log = log

SpecReleaseFair ==
    /\ SpecRelease
    /\ ([]<>ObserverCannotAct \/ []<><<ObserverCallback>>_vars)
    /\ SF_vars(ReleaseFlag)

\* ------------------------------------------------------------------ claims
\* a stored state lies within the page for an element of the given size: on
\* an axis where the element fits, 0 <= coordinate <= page - size; on an
\* axis where it exceeds the page, the coordinate is 0
WithinPage(state, width, height, dims) ==
    /\ IF width <= dims.width
       THEN 0 <= state.x /\ state.x <= dims.width - width
       ELSE state.x = 0
    /\ IF height <= dims.height
       THEN 0 <= state.y /\ state.y <= dims.height - height
       ELSE state.y = 0

\* C1: in every reachable state, every stored NodeState of a node on the
\* surface lies within the page (0 <= x <= pageWidth - nodeWidth and
\* 0 <= y <= pageHeight - nodeHeight where the node fits, 0 on an axis where
\* it exceeds the page), also after a change of the page dimensions.
C1_StoredStatesWithinPage ==
    \A n \in DOMAIN nodeStates :
        dom[n].attached =>
            WithinPage(nodeStates[n], dom[n].width, dom[n].height, getPageDimensions)

\* C2: in every reachable state every stored NodeState has
\* 0 <= pageIndex < |Pages|, whatever sequence of assignStateToNewNode,
\* updateNodeStateFromStyleChange, addNewPage, setCurrentPageIndex,
\* loadCanvasData and validateState led there.
C2_PageIndexInRange ==
    \A n \in DOMAIN nodeStates :
        0 <= nodeStates[n].pageIndex /\ nodeStates[n].pageIndex < Len(pages)

\* a load has just repaired a saved state that named a page the saved page
\* list does not have
C2_Witness ==
    /\ out.op = "loadCanvasData"
    /\ out.blob.version = CANVAS_DATA_VERSION
    /\ \E n \in DOMAIN out.blob.nodeStates :
          /\ out.blob.nodeStates[n].pageIndex >= Len(out.blob.pages)
          /\ Len(out.blob.pages) > 0
          /\ n \in DOMAIN nodeStates
          /\ nodeStates[n].pageIndex = 0

\* (a step that leaves out.op = "update" is a call of
\* updateNodeStateFromStyleChange for out.node with out.rect)
\* C5: updateNodeStateFromStyleChange never changes the node's pageIndex,
\* whatever absolute rect is reported (also one in another page's band), and
\* leaves every other node's state, and the set of nodes with a state, as
\* they were.
C5_MoveKeepsPage ==
    [][out'.op = "update" =>
          LET n == out'.node
          IN /\ DOMAIN nodeStates' = DOMAIN nodeStates
             /\ nodeStates'[n].pageIndex = nodeStates[n].pageIndex
             /\ \A m \in DOMAIN nodeStates \ {n} : nodeStates'[m] = nodeStates[m]]_vars

\* a node of page 0 was reported in the band of page 1, its stored state
\* changed, and another node has a state of its own
C5_Witness ==
    /\ out.op = "update"
    /\ Len(pages) = 2
    /\ out.rect.y >= pageOffsetY(1, getPageDimensions.height)
    /\ out.stateChanged
    /\ nodeStates[out.node].pageIndex = 0
    /\ DOMAIN nodeStates = Nodes

\* C6: updateNodeStateFromStyleChange reports stateChanged exactly when the
\* clamped candidate differs from the current state, writes the clamped
\* candidate to the store exactly then and leaves the store alone otherwise,
\* and returns the clamp's own changed flag (the candidate lay outside the
\* page) whatever stateChanged is.
C6_StateChangedExact ==
    [][out'.op = "update" =>
             LET n == out'.node
                 cur == nodeStates[n]
                 dims == getPageDimensions
                 candX == out'.rect.x
                 candY == out'.rect.y - pageOffsetY(cur.pageIndex, dims.height)
                 c == out'.clampedResult
                 differs == (c.x # cur.x) \/ (c.y # cur.y)
             IN /\ c = clampToBounds(candX, candY, out'.rect.width,
                                     out'.rect.height, dims)
                /\ out'.stateChanged = differs
                /\ differs => nodeStates' = MapSet(nodeStates, n,
                                 [pageIndex |-> cur.pageIndex, x |-> c.x, y |-> c.y])
                /\ ~differs => nodeStates' = nodeStates
                /\ c.changed = ~WithinPage([x |-> candX, y |-> candY],
                                           out'.rect.width, out'.rect.height, dims)
      ]_vars

\* the clamp corrected the reported position and the result is what the
\* store already held
C6_Witness ==
    /\ out.op = "update"
    /\ out.clampedResult.changed
    /\ ~out.stateChanged

\* C3: while isUpdatingNodePosition is set, a batch of notifications is
\* dropped whole: pages, node states, current page and the surface stay as
\* they are, and no timer, frame or save is scheduled for it.
C3_SuppressedBatchIgnored ==
    [][(isUpdatingNodePosition /\ records # <<>> /\ ObserverCallback) =>
          UNCHANGED <<pages, nodeStates, currentPageIndex, dom, saveTimeout,
                      releaseTimers, insertTimers, rafQueue>>]_vars

\* the flag is set and the callback has just dropped the insertion of a node
\* the host made
C3_Witness ==
    /\ isUpdatingNodePosition
    /\ \E i \in DOMAIN log : log[i].ev = "ignored added"

\* C4: every programmatic write of a node's transform (the clamp rewrite of
\* the observer callback, applyNodeVisibilityAndPosition,
\* applyStateToSingleNode, the deferred re-apply after an insertion) is done
\* with isUpdatingNodePosition already set.
C4_WritesUnderFlag ==
    \A i \in DOMAIN log : log[i].ev = "write" => log[i].guarded

\* the first style record of a batch, and what the callback computes for it
\* from the state it finds
HasStyle(recs) == \E i \in 1..Len(recs) : recs[i].type = "style"
FirstStyle(recs) ==
    CHOOSE i \in 1..Len(recs) :
        /\ recs[i].type = "style"
        /\ \A j \in 1..(i - 1) : recs[j].type # "style"
FirstStyleNode == records[FirstStyle(records)].node
FirstStyleResult ==
    updateNodeStateFromStyleChange(nodeStates, FirstStyleNode,
        nodeStates[FirstStyleNode], getNodeRectFromElement(dom[FirstStyleNode]),
        getPageDimensions)
\* a step of the callback, flag clear, whose first style record is for a node
\* with a state and makes the clamp correct something
ClampingCallback ==
    /\ ~isUpdatingNodePosition
    /\ HasStyle(records)
    /\ FirstStyleNode \in DOMAIN nodeStates
    /\ FirstStyleResult.clampedResult.changed
    /\ ObserverCallback
\* the callback leaves the node at the clamped position of its page, written
\* with the flag set
RewrittenUnderFlag ==
    LET n == FirstStyleNode
        c == FirstStyleResult.clampedResult
    IN /\ dom'[n].x = c.x
       /\ dom'[n].y = c.y + nodeStates[n].pageIndex
                              * (getPageDimensions.height + PAGE_GAP)
       /\ \E i \in DOMAIN log' : log'[i] = Ev("write", n, TRUE, 0)
       /\ isUpdatingNodePosition'

\* C7 as stated: on a style record for a node with a state, whenever the clamp
\* corrected anything, the transform is rewritten to
\* (x', y' + pageIndex * (pageHeight + gap)) under the flag and a save timer
\* is pending afterwards.
C7_ClampRewritesAndSaves ==
    [][ClampingCallback => RewrittenUnderFlag /\ saveTimeout']_vars

\* C7, amended: whenever the clamp corrected anything the transform is
\* rewritten to (x', y' + pageIndex * (pageHeight + gap)) under the flag; a
\* save is requested exactly when the stored state changed, so a correction
\* back to the stored position leaves the save timer as it was.
C7_ClampRewritesSavesOnChange ==
    [][ClampingCallback =>
          /\ RewrittenUnderFlag
          /\ saveTimeout' = (saveTimeout \/ FirstStyleResult.stateChanged)]_vars

\* the callback has just rewritten a transform under the flag, and no save
\* timer is pending
C7_Witness ==
    /\ \E i \in DOMAIN log : log[i].ev = "write" /\ log[i].guarded
    /\ \E i \in DOMAIN log : log[i].ev = "style"
    /\ ~saveTimeout

\* a step of the callback, flag clear, with a style record for node n, which
\* has no state
StyleWithoutState(n) ==
    /\ ~isUpdatingNodePosition
    /\ n \notin DOMAIN nodeStates
    /\ \E i \in 1..Len(records) : records[i].type = "style" /\ records[i].node = n
    /\ ObserverCallback

C9_InsertionReapplies ==
    [][/\ \A n \in Nodes :
             (/\ ~isUpdatingNodePosition
              /\ \E i \in 1..Len(records) :
                    records[i].type = "added" /\ records[i].node = n
              /\ ObserverCallback) => n \in insertTimers'
       /\ \A n \in Nodes :
             (n \in insertTimers /\ dom[n].attached /\ InsertionTimer(n)) =>
                /\ n \in DOMAIN nodeStates => nodeStates' = nodeStates
                /\ n \notin DOMAIN nodeStates =>
                      /\ DOMAIN nodeStates' = DOMAIN nodeStates \cup {n}
                      /\ nodeStates'[n].pageIndex = currentPageIndex
                      /\ \A m \in DOMAIN nodeStates : nodeStates'[m] = nodeStates[m]
                /\ rafQueue' = Append(rafQueue, [node |-> n, state |-> nodeStates'[n]])
       /\ (rafQueue # <<>> /\ AnimationFrame) =>
             LET n == Head(rafQueue).node
                 st == Head(rafQueue).state
             IN dom[n].attached =>
                   /\ dom'[n].x = st.x
                   /\ dom'[n].y = st.y + st.pageIndex
                                           * (getPageDimensions.height + PAGE_GAP)
                   /\ dom'[n].hidden = (st.pageIndex # currentPageIndex)
      ]_vars

\* a frame has just re-applied the state of a node that lives on another page
\* than the one shown
C9_Witness ==
    /\ log # <<>>
    /\ log[1].ev = "frame"
    /\ LET n == log[1].node
       IN /\ dom[n].attached
          /\ n \in DOMAIN nodeStates
          /\ nodeStates[n].pageIndex # currentPageIndex
          /\ dom[n].hidden

\* C10: within one batch every style record is processed before any added
\* node is handled.
C10_StyleBeforeInsertion ==
    \A i, j \in DOMAIN log :
        (log[i].ev = "added" /\ log[j].ev = "style") => j < i

\* in the batch just processed the insertion came before the style change,
\* and the style change was processed first
C10_Witness ==
    \E i, j \in DOMAIN log :
        /\ log[i].ev = "style" /\ log[j].ev = "added"
        /\ i < j
        /\ log[i].at > log[j].at

ProjectionStep ==
    \/ currentPageIndex' # currentPageIndex
    \/ currentCanvasFile' # currentCanvasFile
    \/ InitializeCanvasView

HiddenStyleCallback ==
    /\ ~isUpdatingNodePosition
    /\ HasStyle(records)
    /\ FirstStyleNode \in DOMAIN nodeStates
    /\ nodeStates[FirstStyleNode].pageIndex # currentPageIndex
    /\ dom[FirstStyleNode].hidden
    /\ ObserverCallback

\* C13: no step of the engine takes an element off the surface or puts one
\* on it (only the host does, and the opening of a canvas finds what the host
\* has drawn), so hiding leaves the element there; and a style change of a
\* hidden node (its state is on a page that is not shown) is reconciled as a
\* visible node's is: the store takes what updateNodeStateFromStyleChange
\* computes against the node's own page, a save is requested when the state
\* changed, a clamped position is written back on the node's own page, and the
\* node stays hidden on its page.
C13_HiddenNodeReconciled ==
    [][/\ \A n \in Nodes :
             dom'[n].attached # dom[n].attached =>
                \/ currentCanvasFile' # currentCanvasFile
                \/ /\ records' # <<>>
                   /\ records'[Len(records')].origin = "host"
                   /\ records'[Len(records')].node = n
       /\ HiddenStyleCallback =>
             LET n == FirstStyleNode
                 r == FirstStyleResult
             IN /\ nodeStates' = r.ns
                /\ nodeStates'[n].pageIndex = nodeStates[n].pageIndex
                /\ saveTimeout' = (saveTimeout \/ r.stateChanged)
                /\ r.clampedResult.changed =>
                      /\ dom'[n].x = r.clampedResult.x
                      /\ dom'[n].y = r.clampedResult.y
                             + pageOffsetY(nodeStates[n].pageIndex,
                                           getPageDimensions.height)
                /\ dom'[n].attached = dom[n].attached
                /\ dom'[n].hidden
      ]_vars

\* the callback has just processed the style change of a hidden node of a
\* page that is not shown, and has written a clamped position back
C13_Witness ==
    \E i, j \in DOMAIN log :
        /\ log[i].ev = "style" /\ ~log[i].guarded
        /\ log[j].ev = "write" /\ log[j].node = log[i].node
        /\ log[i].node \in DOMAIN nodeStates
        /\ nodeStates[log[i].node].pageIndex # currentPageIndex
        /\ dom[log[i].node].attached
        /\ dom[log[i].node].hidden

\* the records pending are the ones a page switch's projection has just
\* queued: the last step wrote transforms and did nothing else that is logged
\* (a frame logs "frame" first, a callback logs the records it handled), and
\* the host cannot add to a batch the engine has started
EchoOfPageSwitch ==
    /\ records # <<>>
    /\ log # <<>>
    /\ \A i \in DOMAIN log : log[i].ev = "write"

\* C14: a page switch, and the processing of the notifications its own
\* writes produce, leave every node's stored (pageIndex, x, y) as it was; so
\* does, then, a switch to another page and back.
C14_PageSwitchRoundTrip ==
    [][/\ GoToPage => nodeStates' = nodeStates
       /\ (EchoOfPageSwitch /\ ObserverCallback) => nodeStates' = nodeStates
      ]_vars

\* C15: for every position, and every size with 0 < width <= pageWidth and
\* 0 < height <= pageHeight, clampToBounds returns x' in [0, pageWidth - width]
\* and y' in [0, pageHeight - height].
C15_ClampWithinPage ==
    (/\ out.op = "clampToBounds"
     /\ 0 < out.width /\ out.width <= out.dims.width
     /\ 0 < out.height /\ out.height <= out.dims.height) =>
        /\ 0 <= out.result.x /\ out.result.x <= out.dims.width - out.width
        /\ 0 <= out.result.y /\ out.result.y <= out.dims.height - out.height

\* a node exactly as wide as the page, reported right of the page and above
\* it, has been clamped to the only place it fits
C15_Witness ==
    /\ out.op = "clampToBounds"
    /\ out.width = out.dims.width
    /\ out.height <= out.dims.height
    /\ out.x > 0 /\ out.y < 0
    /\ out.result.x = 0 /\ out.result.y = 0

\* C16: whenever width > pageWidth, clampToBounds returns x' = 0 whatever
\* the input x is (negative, zero or positive), and y' = 0 whenever
\* height > pageHeight.
C16_OversizedAxisAtZero ==
    out.op = "clampToBounds" =>
        /\ out.width > out.dims.width => out.result.x = 0
        /\ out.height > out.dims.height => out.result.y = 0

\* a node wider and taller than the page, reported at a positive position,
\* has been put at the origin
C16_Witness ==
    /\ out.op = "clampToBounds"
    /\ out.width > out.dims.width /\ out.height > out.dims.height
    /\ out.x > 0 /\ out.y > 0
    /\ out.result.x = 0 /\ out.result.y = 0

\* C17: clampToBounds' changed flag is true exactly when the returned
\* position differs from the input position, also for an input already at 0
\* on an axis where the node exceeds the page.
C17_ChangedIffMoved ==
    out.op = "clampToBounds" =>
        out.result.changed = (out.result.x # out.x \/ out.result.y # out.y)

\* C18: the insertion handler of a node without a state stores for it
\* {pageIndex: currentPageIndex, (x, y) = clampToBounds(rect.x,
\* rect.y - currentPageIndex * (pageHeight + PAGE_GAP))}; with a 794 x 1123
\* page a 150 x 80 node reported at absolute (800, 1200) on current page 1 is
\* stored as {pageIndex: 1, x: 644, y: 27}, and the frame that follows
\* rewrites its transform to absolute (644, 1200).
C18_NewNodePlacedOnCurrentPage ==
    [][/\ \A n \in Nodes :
             (/\ n \in insertTimers
              /\ dom[n].attached
              /\ n \notin DOMAIN nodeStates
              /\ InsertionTimer(n)) =>
                LET rect == getNodeRectFromElement(dom[n])
                    dims == getPageDimensions
                    c == clampToBounds(rect.x,
                            rect.y - currentPageIndex * (dims.height + PAGE_GAP),
                            rect.width, rect.height, dims)
                IN /\ nodeStates'[n] = [pageIndex |-> currentPageIndex,
                                        x |-> c.x, y |-> c.y]
                   /\ (/\ rect = [x |-> 800, y |-> 1200, width |-> 150,
                                   height |-> 80]
                       /\ currentPageIndex = 1
                       /\ dims = [width |-> 794, height |-> 1123]) =>
                          nodeStates'[n] = [pageIndex |-> 1, x |-> 644, y |-> 27]
       /\ (/\ rafQueue # <<>>
           /\ dom[Head(rafQueue).node].attached
           /\ Head(rafQueue).state = [pageIndex |-> 1, x |-> 644, y |-> 27]
           /\ getPageDimensions.height = 1123
           /\ AnimationFrame) =>
              /\ dom'[Head(rafQueue).node].x = 644
              /\ dom'[Head(rafQueue).node].y = 1200
      ]_vars

\* the frame has just moved a node that was placed on page 1 from where the
\* host had reported it to absolute (644, 1200)
C18_Witness ==
    /\ log # <<>>
    /\ log[1].ev = "frame"
    /\ \E i \in DOMAIN log : log[i].ev = "write" /\ log[i].node = log[1].node
    /\ records # <<>>
    /\ log[1].node \in DOMAIN nodeStates
    /\ nodeStates[log[1].node] = [pageIndex |-> 1, x |-> 644, y |-> 27]
    /\ dom[log[1].node].x = 644
    /\ dom[log[1].node].y = 1200

\* C19: setCurrentPageIndex(index) sets currentPageIndex to index when
\* 0 <= index < |pages| and otherwise to the nearest valid index (0 for a
\* negative request, |pages| - 1 for one past the end); it changes nothing
\* else in the store.
C19_SetCurrentPageClamps ==
    [][out'.op = "setCurrentPageIndex" =>
          LET index == out'.index
          IN /\ currentPageIndex' =
                   (IF 0 <= index /\ index < Len(pages) THEN index
                    ELSE IF index < 0 THEN 0 ELSE Len(pages) - 1)
             /\ UNCHANGED <<pages, nodeStates, saveTimeout, strayTimers,
                   pendingSwitch, orphanInserts, nodeEl, pendingSaves, overlapSwitch>>]_vars

\* with two pages and a node state in the store, a request past the end has
\* just been answered with the last page
C19_Witness ==
    /\ out.op = "setCurrentPageIndex"
    /\ Len(pages) = 2
    /\ out.index >= Len(pages)
    /\ currentPageIndex = 1
    /\ DOMAIN nodeStates # {}

\* C20: a goToPage request for a page index that does not exist is rejected
\* with a notice shown to the user and changes nothing: currentPageIndex, the
\* page list, every node state and every node's transform and visibility stay
\* as they were.
C20_InvalidTargetRejected ==
    [][\A target \in {currentPageIndex - 1, currentPageIndex + 1} :
          ((target < 0 \/ target >= Len(pages)) /\ goToPage(target)) =>
             /\ goToPageNotices(target) # <<>>
             /\ UNCHANGED <<currentPageIndex, pages, nodeStates, dom>>]_vars

\* C21: addNewPage on a store with n pages appends exactly one page, with
\* index n and name "Page n+1", returns n, and leaves the pages it found, all
\* node states and currentPageIndex as they were (with two pages: a third
\* page, index 2, "Page 3").
C21_AddNewPageAppends ==
    [][out'.op = "addNewPage" =>
          LET n == Len(pages)
          IN /\ pages' = Append(pages, [index |-> n, name |-> n + 1])
             /\ out'.newPageIndex = n
             /\ nodeStates' = nodeStates
             /\ currentPageIndex' = currentPageIndex
             /\ n = 2 => pages'[3] = [index |-> 2, name |-> 3]]_vars

\* a third page has just been added to a store that holds node states and
\* shows its second page
C21_Witness ==
    /\ out.op = "addNewPage"
    /\ out.newPageIndex = 2
    /\ Len(pages) = 3
    /\ currentPageIndex = 1
    /\ DOMAIN nodeStates # {}

\* a store content that needs no repair: at least one page, every page's
\* index its position, every node state on a page that exists, the current
\* page one that exists
StoreValid(st) ==
    /\ Len(st.pages) > 0
    /\ \A i \in 1..Len(st.pages) : st.pages[i].index = i - 1
    /\ \A n \in DOMAIN st.nodeStates :
          /\ 0 <= st.nodeStates[n].pageIndex
          /\ st.nodeStates[n].pageIndex < Len(st.pages)
    /\ 0 <= st.currentPageIndex /\ st.currentPageIndex < Len(st.pages)

\* C22: validateState is an idempotent repair: whatever the store held (node
\* states on page indices out of range, wrong page indices, a current page
\* out of range, an empty page list), running validateState on its result
\* changes nothing more; and a store that needs no repair is left as it is.
C22_ValidateIdempotent ==
    [][out'.op \in {"validateState", "validateStateOn"} =>
          LET before == IF out'.op = "validateStateOn" THEN out'.raw
                        ELSE [pages |-> pages, nodeStates |-> nodeStates,
                              currentPageIndex |-> currentPageIndex]
              after == [pages |-> pages', nodeStates |-> nodeStates',
                        currentPageIndex |-> currentPageIndex']
          IN /\ after = validateState(before.pages, before.nodeStates,
                                      before.currentPageIndex)
             /\ validateState(after.pages, after.nodeStates,
                              after.currentPageIndex) = after
             /\ StoreValid(after)
             /\ StoreValid(before) => after = before]_vars

\* validateState has just repaired a store with an empty page list, a node
\* state on a page that does not exist and a current page out of range
C22_Witness ==
    /\ out.op = "validateStateOn"
    /\ out.raw.pages = <<>>
    /\ out.raw.currentPageIndex > 0
    /\ \E n \in DOMAIN out.raw.nodeStates : out.raw.nodeStates[n].pageIndex > 0
    /\ Len(pages) = 1
    /\ currentPageIndex = 0
    /\ \A n \in DOMAIN nodeStates : nodeStates[n].pageIndex = 0

\* C23: in every reachable state each page's index is its position in the
\* page list (pages[i].index = i, counting from 0), also right after a blob
\* has been loaded and after addNewPage.
C23_PageIndexIsPosition ==
    \A i \in 1..Len(pages) : pages[i].index = i - 1

\* a blob whose pages all carried index 0 has just been loaded, and the store
\* holds as many pages as the blob
C23_Witness ==
    /\ out.op = "loadCanvasData"
    /\ out.blob.version = CANVAS_DATA_VERSION
    /\ Len(out.blob.pages) >= 2
    /\ \A i \in 1..Len(out.blob.pages) : out.blob.pages[i].index = 0
    /\ Len(pages) = Len(out.blob.pages)

\* C24: loadCanvasData of a key the data file does not hold, of a blob of
\* another version, or of a blob whose pages or nodeStates is not an array,
\* leaves a fresh model (exactly one page "Page 1", no node state,
\* currentPageIndex 0) and returns false; nothing of the blob and nothing of
\* the model held before stays.
C24_UnusableBlobResets ==
    (\/ out.op = "loadStored" /\ HomeDoc \notin DOMAIN storage
     \/ /\ out.op = "loadCanvasData"
        /\ \/ out.blob.version # CANVAS_DATA_VERSION
           \/ out.blob.shape # Arrays) =>
        /\ ~out.returned
        /\ pages = <<[index |-> 0, name |-> 1]>>
        /\ DOMAIN nodeStates = {}
        /\ currentPageIndex = 0

\* a blob of another version, holding two pages and node states, has just
\* been refused
C24_Witness ==
    /\ out.op = "loadCanvasData"
    /\ out.blob.version # CANVAS_DATA_VERSION
    /\ Len(out.blob.pages) = 2
    /\ DOMAIN out.blob.nodeStates # {}
    /\ ~out.returned

\* C25: saving a valid model under a document key, resetting the store and
\* loading the key again gives the same page list in the same order and the
\* same id -> state pairs: the blob saveCanvasData writes holds the pages and
\* node states of the store, and loadCanvasData of a key that holds a saved
\* blob leaves the pages and node states of that blob in the store, whatever
\* the store held in between.
C25_SaveLoadRoundTrip ==
    [][/\ out'.op = "saveCanvasData" =>
             /\ HomeDoc \in DOMAIN storage'
             /\ storage'[HomeDoc].version = CANVAS_DATA_VERSION
             /\ storage'[HomeDoc].shape = Arrays
             /\ storage'[HomeDoc].pages = pages
             /\ storage'[HomeDoc].nodeStates = nodeStates
       /\ (out'.op = "loadStored" /\ HomeDoc \in DOMAIN storage) =>
             /\ out'.returned
             /\ pages' = storage[HomeDoc].pages
             /\ nodeStates' = storage[HomeDoc].nodeStates
      ]_vars

\* a saved model of three pages and two node states, one of them on the
\* second page, has just been loaded
C25_Witness ==
    /\ out.op = "loadStored"
    /\ out.returned
    /\ Len(pages) = 3
    /\ DOMAIN nodeStates = Nodes
    /\ \E n \in Nodes : nodeStates[n].pageIndex = 1
    /\ storage[HomeDoc].pages = pages
    /\ storage[HomeDoc].nodeStates = nodeStates

\* C26: requestSave is debounced. At every moment at most one debounce timer
\* is pending; a requestSave call leaves exactly the timer it started pending;
\* the step in which the timer fires with a canvas open writes the blob of
\* the model and leaves no timer behind, so a burst of calls is followed by
\* one write; and a pending timer does fire once the calls have stopped.
C26_RequestSaveDebounced ==
    /\ [](strayTimers = 0)
    /\ [][(out' # out /\ out'.op = "requestSave")
            => (saveTimeout' /\ strayTimers' = 0)]_vars
    /\ [][(saveTimeout /\ ~saveTimeout')
            => /\ strayTimers' = 0
               /\ out'.op = "saveTimer"
               /\ currentCanvasFile # NoFile
                    => storage' = saveCanvasData(currentCanvasFile).storage]_vars
    /\ (saveTimeout ~> ~saveTimeout)

C26_Witness ==
    /\ out.op = "saveTimer"
    /\ out.calls >= 2
    /\ out.wrote
    /\ ~saveTimeout
    /\ strayTimers = 0
    /\ HomeDoc \in DOMAIN storage

\* C27: leaving document A for document B clears A's debounce timer and
\* writes A's blob instead, and afterwards no callback that was set up on A's
\* surface changes the model: the 50 ms handler of a node added to A, run once
\* B's model is loaded, leaves pages, node states and current page alone.
C27_OldSurfaceLeavesNewModelAlone ==
    /\ [][(pendingSwitch = NoSwitch /\ pendingSwitch' # NoSwitch)
            => ~saveTimeout']_vars
    /\ [][(pendingSwitch.pc = "saving" /\ pendingSwitch'.pc # "saving")
            => currentCanvasFile \in DOMAIN storage']_vars
    /\ [][(orphanInserts' # orphanInserts /\ pendingSwitch' = pendingSwitch)
            => UNCHANGED <<pages, nodeStates, currentPageIndex>>]_vars

\* C28: the flush on leaving a document (another canvas, no canvas, unload) is
\* complete before the model is replaced, and the blob it leaves under the
\* document's key holds the model as it is when the flush completes: every
\* change made while the document was open is in it.
C28_FlushLosesNoEdit ==
    /\ [][(pendingSwitch.pc = "loading" /\ pendingSwitch' = NoSwitch)
            => HomeDoc \in DOMAIN storage]_vars
    /\ [][(pendingSwitch.pc = "saving" /\ pendingSwitch'.pc # "saving")
            => /\ storage'[currentCanvasFile].pages = pages
               /\ storage'[currentCanvasFile].nodeStates = nodeStates]_vars

\* C29: identity is stable. A call of ensureNodeId on an element that was
\* called on before returns the id the first call returned, also when one of
\* the two channels was stripped since the call before.
C29_IdentityStable ==
    (out.op = "ensureNodeId" /\ out.calls = 2) => out.returned = out.first

\* C30: after every ensureNodeId call both channels of the element hold the
\* id returned, whatever they held before: one empty, both empty, or two
\* different values.
C30_BothChannelsHoldId ==
    out.op = "ensureNodeId"
        => (nodeEl.id = out.returned /\ nodeEl.data = out.returned)

\* C31: a node whose geometry cannot be read is skipped for that cycle. An
\* observer callback whose records are all of such nodes, and the 50 ms
\* handler of such a node, leave every node state as it is, write no
\* transform, raise no flag and ask for no save or frame; a style record of a
\* node that can be measured (again) is reconciled as always.
C31_UnmeasurableNodeSkipped ==
    /\ [][(/\ records # <<>>
           /\ log' # <<>>
           /\ ~isUpdatingNodePosition
           /\ \A i \in 1..Len(records) : ~dom[records[i].node].measurable)
            => /\ UNCHANGED <<nodeStates, dom, saveTimeout, rafQueue>>
               /\ records' = <<>>
               /\ ~isUpdatingNodePosition']_vars
    /\ [][\A n \in Nodes :
            (/\ n \in insertTimers
             /\ n \notin insertTimers'
             /\ dom[n].attached
             /\ ~dom[n].measurable)
            => UNCHANGED <<nodeStates, dom, saveTimeout, rafQueue, records>>]_vars
    /\ [][\A n \in Nodes :
            (/\ records = <<Rec("style", n, "host")>>
             /\ log' # <<>>
             /\ ~isUpdatingNodePosition
             /\ n \in DOMAIN nodeStates
             /\ dom[n].measurable)
            => nodeStates' = updateNodeStateFromStyleChange(nodeStates, n,
                                nodeStates[n], getNodeRectFromElement(dom[n]),
                                getPageDimensions).ns]_vars

C31_Witness ==
    /\ \E i \in 1..Len(log) :
          /\ log[i].ev = "no rect"
          /\ log[i].at > 0
          /\ log[i].node \in DOMAIN nodeStates
          /\ dom[log[i].node].x # nodeStates[log[i].node].x
    /\ records = <<>>
    /\ ~isUpdatingNodePosition

\* C32: the flag is released by a timer, not by the write. The step that
\* sets the flag leaves it set, with a release timer pending; as long as the
\* flag is set a release timer is pending; the step in which a release timer
\* runs leaves the flag clear; and the flag, once set, becomes clear again.
C32_FlagReleasedOnNextTick ==
    /\ [](isUpdatingNodePosition => releaseTimers > 0)
    /\ [][(~isUpdatingNodePosition /\ isUpdatingNodePosition')
            => (releaseTimers' > releaseTimers /\ records # <<>>)]_vars
    /\ [][(releaseTimers' < releaseTimers) => ~isUpdatingNodePosition']_vars
    /\ (isUpdatingNodePosition ~> ~isUpdatingNodePosition)

C32_Witness ==
    /\ ~isUpdatingNodePosition
    /\ releaseTimers = 0
    /\ records = <<>>
    /\ \E n \in Drawable :
          /\ dom[n].attached
          /\ n \in DOMAIN nodeStates
          /\ dom[n].x = DefaultPageWidthPx - dom[n].width
          /\ nodeStates[n].x = dom[n].x

\* nothing is in flight: no records, no release or insertion timer, no frame
Quiescent ==
    /\ ~isUpdatingNodePosition
    /\ records = <<>>
    /\ releaseTimers = 0
    /\ insertTimers = {}
    /\ rafQueue = <<>>

\* C33: at quiescence every live node that has a state stands where its
\* state says: its transform is (x, y + pageIndex * (pageHeight + gap)).
C33_QuiescentSurfaceMatchesStore ==
    Quiescent =>
        \A n \in DOMAIN nodeStates :
            dom[n].attached =>
                /\ dom[n].x = nodeStates[n].x
                /\ dom[n].y = nodeStates[n].y
                     + pageOffsetY(nodeStates[n].pageIndex,
                                   getPageDimensions.height)

\* the document whose model the StateManager holds: the open one, and the
\* one being left while the load of the next has not answered
ModelOwner ==
    IF pendingSwitch.pc = "loading" THEN pendingSwitch.from
    ELSE currentCanvasFile

\* C34: a blob is written under the key of the document whose model it is:
\* a step that changes what is stored under a key is a step in which the
\* StateManager holds the model of that document.
C34_BlobUnderOwnKey ==
    [][\A d \in DOMAIN storage' :
          (d \notin DOMAIN storage \/ storage'[d] # storage[d])
              => d = ModelOwner]_vars


\* ------------------------------------------------ overlapping saves
\* saveCanvasData and saveSettings each read the whole data file
\* (await loadData), change their own entries in the copy and write the copy
\* back (await saveData).  A save is in pendingSaves from its call to the moment
\* its write reaches the file; `read` is the copy it holds.  The file's
\* pageWidthPx/pageHeightPx entries are written from plugin.settings by both
\* and read only at onload; `storage` holds the document entries of the file.
NoBlob == [version |-> CANVAS_DATA_VERSION, shape |-> Arrays,
           pages |-> <<>>, nodeStates |-> EmptyMap]

OverlapFrame == <<currentCanvasFile, isUpdatingNodePosition, releaseTimers,
                  insertTimers, rafQueue, out, strayTimers, pendingSwitch,
                  orphanInserts, nodeEl, overlapSwitch>>

\* the debounce timer fires: saveCanvasData up to its await of loadData
CanvasSaveStarts ==
    /\ records = <<>>
    /\ saveTimeout
    /\ currentCanvasFile # NoFile
    /\ Cardinality(pendingSaves) < MaxSaves
    /\ saveTimeout' = FALSE
    /\ LET v == validateState(pages, nodeStates, currentPageIndex)
       IN /\ pages' = v.pages
          /\ nodeStates' = v.nodeStates
          /\ currentPageIndex' = v.currentPageIndex
          /\ pendingSaves' = pendingSaves \cup
                {[kind |-> "canvas", pc |-> "reading", key |-> currentCanvasFile,
                  blob |-> [version |-> CANVAS_DATA_VERSION, shape |-> Arrays,
                            pages |-> v.pages, nodeStates |-> v.nodeStates],
                  read |-> storage]}
    /\ log' = <<>>
    /\ UNCHANGED <<settings, storage, dom, records>>
    /\ UNCHANGED OverlapFrame

\* the settings tab's onChange: the new value, then saveSettings up to its
\* await of loadData
SettingsSaveStarts ==
    /\ records = <<>>
    /\ Cardinality(pendingSaves) < MaxSaves
    /\ \E w \in WidthChoices, h \in HeightChoices :
          /\ (w # settings.pageWidthPx) # (h # settings.pageHeightPx)
          /\ settings' = [pageWidthPx |-> w, pageHeightPx |-> h]
    /\ pendingSaves' = pendingSaves \cup
          {[kind |-> "settings", pc |-> "reading", key |-> NoFile,
            blob |-> NoBlob, read |-> storage]}
    /\ log' = <<>>
    /\ UNCHANGED <<pages, nodeStates, currentPageIndex, saveTimeout, storage,
                   dom, records>>
    /\ UNCHANGED OverlapFrame

\* loadData answers: the save now holds the file as it is at this moment
DataFileRead(p) ==
    /\ p \in pendingSaves
    /\ p.pc = "reading"
    /\ pendingSaves' = (pendingSaves \ {p}) \cup
                          {[p EXCEPT !.pc = "writing", !.read = storage]}
    /\ log' = <<>>
    /\ UNCHANGED <<pages, nodeStates, currentPageIndex, saveTimeout, settings,
                   storage, dom, records>>
    /\ UNCHANGED OverlapFrame

\* the copy a save writes back: what it read, with its own entry replaced
allDataOf(p, file) ==
    IF p.kind = "canvas"
    THEN [d \in (DOMAIN p.read) \cup {p.key} |->
             IF d = p.key THEN p.blob ELSE p.read[d]]
    ELSE p.read

\* saveData completes: the copy replaces the file; saveSettings goes on to
\* update the page marker and the projection
DataFileWritten(p) ==
    /\ p \in pendingSaves
    /\ p.pc = "writing"
    /\ records = <<>>
    /\ storage' = allDataOf(p, storage)
    /\ pendingSaves' = pendingSaves \ {p}
    /\ IF p.kind = "settings" /\ currentCanvasFile # NoFile
       THEN Project(currentPageIndex, nodeStates)
       ELSE /\ log' = <<>>
            /\ UNCHANGED <<dom, records>>
    /\ UNCHANGED <<pages, nodeStates, currentPageIndex, saveTimeout, settings>>
    /\ UNCHANGED OverlapFrame

NextOverlap ==
    \/ OpenHomeDocument
    \/ AddNewPage
    \/ GoToPage
    \/ CanvasSaveStarts
    \/ SettingsSaveStarts
    \/ \E p \in pendingSaves : DataFileRead(p)
    \/ \E p \in pendingSaves : DataFileWritten(p)

SpecOverlap == Init /\ [][NextOverlap]_vars

\* C35: a save leaves every stored entry in the data file, and an entry changes
\* only when the save of that very document writes it, also when two saves
\* overlap at their awaits.
C35_SavesKeepOtherEntries ==
    [][\A d \in DOMAIN storage :
          /\ d \in DOMAIN storage'
          /\ (storage'[d] # storage[d] =>
                \E p \in pendingSaves \ pendingSaves' :
                    p.kind = "canvas" /\ p.key = d)]_vars


\* the event loop runs every queued task: a delivered batch, the release
\* timer, each 50 ms insertion handler and the animation frame
SpecAcquireFair ==
    /\ SpecRelease
    /\ ([]<>ObserverCannotAct \/ []<><<ObserverCallback>>_vars)
    /\ SF_vars(ReleaseFlag)
    /\ \A n \in Nodes : SF_vars(InsertionTimer(n))
    /\ SF_vars(AnimationFrame)

\* a change record for n was handled by the callback outside a suppression
\* window
NotifiedOutsideWindow(n) ==
    \E i \in DOMAIN log :
        /\ log[i].node = n
        /\ log[i].ev \in {"style", "added"}
        /\ ~log[i].guarded

\* C36: a live node for which a change record is delivered outside a
\* suppression window eventually has a NodeState (or has left the surface),
\* also when it was on the surface before the observer was attached and when
\* its first record is a geometry change.
C36_NotifiedNodeAcquiresState ==
    \A n \in Nodes :
        NotifiedOutsideWindow(n) ~> (n \in DOMAIN nodeStates \/ ~dom[n].attached)


\* ------------------------------------------- two handlers, one switch
\* layout-change and active-leaf-change both call updatePluginStateForLeaf.
\* The second call starts while the first awaits its flush: currentCanvasFile
\* is still the old file, so it takes the switch branch too: it clears the
\* timer and runs saveCanvasData up to its await.
SecondSwitchBegin ==
    /\ records = <<>>
    /\ pendingSwitch.pc = "saving"
    /\ pendingSwitch.target # NoFile
    /\ overlapSwitch = NoSwitch
    /\ saveTimeout' = FALSE
    /\ LET v == validateState(pages, nodeStates, currentPageIndex)
       IN /\ pages' = v.pages
          /\ nodeStates' = v.nodeStates
          /\ currentPageIndex' = v.currentPageIndex
          /\ overlapSwitch' = [pc |-> "saving", target |-> pendingSwitch.target,
                               from |-> currentCanvasFile,
                               entries |-> v.nodeStates]
    /\ log' = <<>>
    /\ UNCHANGED <<settings, currentCanvasFile, storage, isUpdatingNodePosition,
                   dom, records, releaseTimers, insertTimers, rafQueue, out,
                   strayTimers, pendingSwitch, orphanInserts, nodeEl,
                   pendingSaves>>

\* the second flush is in the data file (the data file answers in the order
\* it was asked: after the first flush, before the first load). The handler
\* goes on: currentCanvasFile is the new file, loadCanvasData runs up to its
\* await
SecondSwitchWrite ==
    /\ records = <<>>
    /\ overlapSwitch.pc = "saving"
    /\ pendingSwitch.pc = "loading"
    /\ storage' = [d \in (DOMAIN storage) \cup {overlapSwitch.from} |->
                     IF d = overlapSwitch.from
                     THEN [version |-> CANVAS_DATA_VERSION, shape |-> Arrays,
                           pages |-> pages,
                           nodeStates |-> overlapSwitch.entries]
                     ELSE storage[d]]
    /\ currentCanvasFile' = overlapSwitch.target
    /\ overlapSwitch' = [pc |-> "loading", target |-> overlapSwitch.target,
                         from |-> overlapSwitch.from]
    /\ log' = <<>>
    /\ UNCHANGED <<pages, nodeStates, currentPageIndex, saveTimeout, settings,
                   isUpdatingNodePosition, dom, records, releaseTimers,
                   insertTimers, rafQueue, out, strayTimers, pendingSwitch,
                   orphanInserts, nodeEl, pendingSaves>>

\* the first handler's load, answered after the second flush
FirstSwitchLoad ==
    /\ overlapSwitch.pc # "saving"
    /\ SwitchLoad

\* the second load answers after the first handler has initialized the view:
\* loadCanvasData replaces pages and nodeStates, and initializeCanvasView finds
\* the surface already observed and projects
SecondSwitchLoad ==
    /\ records = <<>>
    /\ overlapSwitch.pc = "loading"
    /\ pendingSwitch = NoSwitch
    /\ LET m == loadCanvasData(storage, overlapSwitch.target)
       IN /\ pages' = m.pages
          /\ nodeStates' = m.nodeStates
          /\ currentPageIndex' = m.currentPageIndex
          /\ Project(m.currentPageIndex, m.nodeStates)
    /\ overlapSwitch' = NoSwitch
    /\ out' = [op |-> "loadCanvasData", file |-> overlapSwitch.target]
    /\ UNCHANGED <<saveTimeout, settings, currentCanvasFile, storage,
                   isUpdatingNodePosition, releaseTimers, insertTimers, rafQueue,
                   strayTimers, pendingSwitch, orphanInserts, nodeEl,
                   pendingSaves>>

\* a switch starts when no other is under way
FirstSwitchBegin(d) ==
    /\ overlapSwitch = NoSwitch
    /\ SwitchBegin(d)

NextTwoHandlers ==
    \/ OpenHomeDocument
    \/ AddNewPage
    \/ GoToPage
    \/ \E d \in {OtherDoc, HomeDoc} : FirstSwitchBegin(d)
    \/ SwitchWrite
    \/ FirstSwitchLoad
    \/ SecondSwitchBegin
    \/ SecondSwitchWrite
    \/ SecondSwitchLoad

SpecTwoHandlers == Init /\ [][NextTwoHandlers]_vars

\* C37: when both lifecycle handlers run for one document switch, the load
\* of the second does not replace the model: pages and node states are what
\* the first load gave plus the edits made since.
C37_SecondLoadKeepsEdits ==
    [][(overlapSwitch.pc = "loading" /\ overlapSwitch'.pc = "idle")
          => (pages' = pages /\ nodeStates' = nodeStates)]_vars


\* ------------------------------------------------------- settling
\* the widths the host gives a node: its own, and one wider than any page
NodeWidths == {150, 900}

\* the user resizes a node: the host rewrites its style
HostResizes(n) ==
    /\ HostMayAct
    /\ dom[n].attached
    /\ \E w \in NodeWidths :
          /\ w # dom[n].width
          /\ dom' = [dom EXCEPT ![n].width = w]
    /\ records' = Append(records, Rec("style", n, "host"))
    /\ log' = <<>>
    /\ UNCHANGED HostFrame

HostStep ==
    \E n \in Drawable : HostMoves(n) \/ HostInserts(n) \/ HostResizes(n)

NextSettle ==
    \/ OpenHomeDocument
    \/ \E n \in Drawable : HostMoves(n)
    \/ \E n \in Drawable : HostInserts(n)
    \/ \E n \in Drawable : HostResizes(n)
    \/ ObserverCallback
    \/ ReleaseFlag
    \/ \E n \in Nodes : InsertionTimer(n)
    \/ AnimationFrame

SpecSettle == Init /\ [][NextSettle]_vars

\* the event loop runs every queued task
SpecSettleFair ==
    /\ SpecSettle
    /\ ([]<>ObserverCannotAct \/ []<><<ObserverCallback>>_vars)
    /\ SF_vars(ReleaseFlag)
    /\ \A n \in Nodes : SF_vars(InsertionTimer(n))
    /\ SF_vars(AnimationFrame)

\* C38: unless the host goes on changing the surface for ever, the engine
\* comes to rest for good: no record queued, no timer or frame pending, the
\* flag released. Its own writes start no cycle, also for a node wider than
\* the page.
C38_EngineSettles ==
    <>[]Quiescent \/ []<><<HostStep>>_vars

\* witness for C38: a node wider than the page has been corrected to the
\* left edge and the engine is at rest
C38_Witness ==
    /\ Quiescent
    /\ \E n \in Drawable :
          /\ dom[n].attached
          /\ dom[n].width > settings.pageWidthPx
          /\ n \in DOMAIN nodeStates
          /\ nodeStates[n].x = 0
          /\ dom[n].x = 0


\* ------------------------------------------- delta and direct reconcile
\* Coordinates are JavaScript numbers (parseFloat of the translate() values):
\* binary floating point, every result rounded to the nearest number the
\* significand can hold, ties to even. A number is written here as a count of
\* 1/QuantaPerPx pixels, and the significand holds SignificandBits bits.
QuantaPerPx == 4096
Px(n) == n * QuantaPerPx

RECURSIVE BitLength(_)
BitLength(k) == IF k = 0 THEN 0 ELSE 1 + BitLength(k \div 2)

RECURSIVE Pow2(_)
Pow2(n) == IF n = 0 THEN 1 ELSE 2 * Pow2(n - 1)

Magnitude(k) == IF k < 0 THEN -k ELSE k

RoundToNumber(k) ==
    LET a == Magnitude(k)
        len == BitLength(a)
    IN IF len <= SignificandBits THEN k
       ELSE LET unit == Pow2(len - SignificandBits)
                q == a \div unit
                r == a % unit
                q1 == IF (2 * r > unit) \/ (2 * r = unit /\ q % 2 = 1)
                      THEN q + 1 ELSE q
            IN IF k < 0 THEN -(q1 * unit) ELSE q1 * unit

NumAdd(a, b) == RoundToNumber(a + b)
NumSub(a, b) == RoundToNumber(a - b)

\* pageIndex * (pageDimensions.height + PAGE_GAP)
pageOffsetYNum(pageIndex, pageH) ==
    RoundToNumber(pageIndex * NumAdd(pageH, Px(PAGE_GAP)))

\* clampToBounds on numbers
clampToBoundsNum(x, y, width, height, dims) ==
    LET effWidth == Max(Px(1), width)
        effHeight == Max(Px(1), height)
        minX == 0
        minY == 0
        maxX == NumSub(dims.width, effWidth)
        maxY == NumSub(dims.height, effHeight)
        x1 == IF x < minX THEN minX ELSE x
        y1 == IF y < minY THEN minY ELSE y
        x2 == IF x1 > maxX THEN Max(minX, maxX) ELSE x1
        y2 == IF y1 > maxY THEN Max(minY, maxY) ELSE y1
    IN [x |-> x2, y |-> y2,
        changed |-> (x < minX) \/ (y < minY) \/ (x1 > maxX) \/ (y1 > maxY)]

\* what an updateNodeStateFromStyleChange leaves in the map for the node, and
\* what it returns
reconcileResult(currentState, c) ==
    LET differs == (c.x # currentState.x) \/ (c.y # currentState.y)
    IN [state |-> IF differs
                  THEN [pageIndex |-> currentState.pageIndex, x |-> c.x, y |-> c.y]
                  ELSE currentState,
        stateChanged |-> differs,
        clampedResult |-> c]

\* mutant of updateNodeStateFromStyleChangeDelta: the delta is taken against
\* the page-relative y
updateNodeStateFromStyleChangeDeltaRelative(currentState, rect, dims) ==
    LET deltaX == NumSub(rect.x, currentState.x)
        deltaY == NumSub(rect.y, currentState.y)
        newRelativeX == NumAdd(currentState.x, deltaX)
        newRelativeY == NumAdd(currentState.y, deltaY)
    IN reconcileResult(currentState,
          clampToBoundsNum(newRelativeX, newRelativeY, rect.width, rect.height,
                           dims))

\* updateNodeStateFromStyleChange, the delta version
updateNodeStateFromStyleChangeDelta(currentState, rect, dims) ==
    LET offY == pageOffsetYNum(currentState.pageIndex, dims.height)
        lastKnownAbsoluteX == currentState.x
        lastKnownAbsoluteY == NumAdd(currentState.y, offY)
        deltaX == NumSub(rect.x, lastKnownAbsoluteX)
        deltaY == NumSub(rect.y, lastKnownAbsoluteY)
        newRelativeX == NumAdd(currentState.x, deltaX)
        newRelativeY == NumAdd(currentState.y, deltaY)
    IN reconcileResult(currentState,
          clampToBoundsNum(newRelativeX, newRelativeY, rect.width, rect.height,
                           dims))

\* updateNodeStateFromStyleChange, the earlier direct version
updateNodeStateFromStyleChangeDirect(currentState, rect, dims) ==
    LET targetPageIndex == currentState.pageIndex
        relativeX == rect.x
        relativeY == NumSub(rect.y, pageOffsetYNum(targetPageIndex, dims.height))
    IN reconcileResult(currentState,
          clampToBoundsNum(relativeX, relativeY, rect.width, rect.height, dims))

\* a fraction of a pixel that a number near 1 holds and a number near 1000
\* cannot
Fraction == 2
ReconcileStateXs == {Px(0), Px(100), Px(512)}
ReconcileStateYs == {Px(0), Px(27), Px(900)}
ReconcileRectXs == {Px(-20), Px(100), Px(800), Px(1) + Fraction}
ReconcileRectYs == {Px(27), Px(1200), Px(2400), Px(1174) + Fraction}
ReconcileWidths == {Px(150), Px(900)}

WholePixels(k) == k % QuantaPerPx = 0

CallUpdateNodeStateFromStyleChange ==
    /\ currentCanvasFile = NoFile
    /\ out = NoCall
    /\ \E pageIndex \in {0, 1}, sx \in ReconcileStateXs, sy \in ReconcileStateYs,
          x \in ReconcileRectXs, y \in ReconcileRectYs, width \in ReconcileWidths :
          LET currentState == [pageIndex |-> pageIndex, x |-> sx, y |-> sy]
              rect == [x |-> x, y |-> y, width |-> width, height |-> Px(80)]
              dims == [width |-> Px(getPageDimensions.width),
                       height |-> Px(getPageDimensions.height)]
          IN out' = [op |-> "updateNodeStateFromStyleChange",
                     currentState |-> currentState, rect |-> rect,
                     whole |-> WholePixels(x) /\ WholePixels(y),
                     delta |-> updateNodeStateFromStyleChangeDelta(
                                   currentState, rect, dims),
                     direct |-> updateNodeStateFromStyleChangeDirect(
                                   currentState, rect, dims)]
    /\ UNCHANGED <<pages, nodeStates, currentPageIndex, saveTimeout, strayTimers,
                   pendingSwitch, orphanInserts, nodeEl, pendingSaves,
                   overlapSwitch>>
    /\ UNCHANGED Idle

NextReconcile ==
    \/ CallUpdateNodeStateFromStyleChange
    \/ SaveSettings

SpecReconcile == Init /\ [][NextReconcile]_vars

\* C39 as stated: for every currentState and reported rect the delta version
\* stores and returns what the direct conversion stores and returns.
C39_DeltaEqualsDirect ==
    out.op = "updateNodeStateFromStyleChange" => out.delta = out.direct

\* C39, amended: for coordinates that are whole pixels the delta version
\* stores and returns what the direct conversion stores and returns.
C39_DeltaEqualsDirectOnWholePixels ==
    (out.op = "updateNodeStateFromStyleChange" /\ out.whole)
        => out.delta = out.direct

\* witness for C39: a whole-pixel move on the second page that is clamped and
\* stored
C39_Witness ==
    /\ out.op = "updateNodeStateFromStyleChange"
    /\ out.whole
    /\ out.currentState.pageIndex = 1
    /\ out.delta.stateChanged
    /\ out.delta.clampedResult.changed
    /\ out.delta.state.y > 0


\* ------------------------------------------------------ the page list
\* the StateManager's operations on a store with no document open, then
\* documents opened, paged and switched
NextPageList ==
    \/ CallAddNewPageOfStore
    \/ CallSetCurrentPageIndex
    \/ CallLoadCanvasData
    \/ CallResetLocalState
    \/ OpenHomeDocument
    \/ AddNewPage
    \/ GoToPage
    \/ \E d \in {OtherDoc, NoFile} : SwitchBegin(d)
    \/ SwitchWrite
    \/ SwitchLoad

SpecPageList == Init /\ [][NextPageList]_vars

\* C40: in every reachable state there is at least one page and
\* currentPageIndex is the index of one of them; a load that succeeds leaves
\* currentPageIndex at 0.
C40_PageListNonEmptyIndexInRange ==
    /\ [](Len(pages) > 0 /\ currentPageIndex \in 0..(Len(pages) - 1))
    /\ [][(out' # out /\ out'.op = "loadCanvasData" /\ out'.returned)
             => currentPageIndex' = 0]_vars

\* witness for C40: a stored blob with an empty page list has been loaded
C40_Witness ==
    /\ out.op = "loadCanvasData"
    /\ out.returned
    /\ Len(out.blob.pages) = 0
    /\ Len(pages) = 1
    /\ currentPageIndex = 0

====
